---- MODULE Spec2Model ----
(***************************************************************************)
(* Chunk & Versioning core (backend/chunk_manager.py): the ChunkManager    *)
(* object, its three registries in memory and on disk, the per-chunk       *)
(* documents.json files, and the operations that mutate them.              *)
(*                                                                         *)
(* Abstractions: timestamps, friendly names, times_used, training_config,  *)
(* metrics, history lists, manifest.json, the adapter files and the        *)
(* operation log decide no branch of the operations below and are left     *)
(* out; a document is represented by its payload value; chunk_NNNN and     *)
(* lora_NNNN ids are the numbers NNNN.                                     *)
(***************************************************************************)
EXTENDS Integers, Sequences, FiniteSets, TLC

\* ------------------------------------------------------------------ bounds
\* Chunks and adapters created in the whole machine, adapters created in the
\* switch and crash machines, chunks created in the chunk-lifecycle machine,
\* documents per chunk, threads calling into one manager at the same time.
MaxChunks == 1
MaxLoras == 1
MaxSwitchLoras == 2
MaxLifecycleChunks == 2
MaxDocs == 1
MaxThreads == 2
MaxTimesUsed == 2
MaxLog == 4
MaxLimit == 4
MaxJobs == 3
MaxSteps == 2

\* --------------------------------------------------------------- constants
None == "None"

PENDING == "pending"
TRAINING == "training"
TRAINED == "trained"
FAILED == "failed"
RESTORED == "restored"
ARCHIVED == "archived"

Paths == {"/m/a", "/m/b"}

\* ModelFingerprint.identify_model(path)['identity_hash']: a digest of the
\* model's content; distinct model directories give distinct hashes.
identify_model(model_path) == IF model_path = "/m/a" THEN "Ha" ELSE "Hb"

Hashes == {identify_model(p) : p \in Paths}

\* identity['name'] = os.path.basename(model_path)
basename(model_path) == IF model_path = "/m/a" THEN "a" ELSE "b"

\* friendly_name arguments: None (the default) or a name.
Names == {None, "alias"}


\* ------------------------------------------------------------- documents
\* Document payloads: a JSON-native value (a string) or a value json does not
\* know (a datetime, a Path), which json.dump(..., default=str) writes as str(v).
Str(s) == [kind |-> "str", val |-> s]
Obj(s) == [kind |-> "obj", val |-> s]

DocValues == {Str("x"), Obj("t")}

SeqsUpTo(S, n) == UNION {[1..k -> S] : k \in 0..n}

DocLists == SeqsUpTo(DocValues, MaxDocs)

\* The documents of a chunk created through POST /chunks/create, which answers
\* 400 to an empty list.
AcceptedDocLists == {documents \in DocLists : documents # <<>>}

\* chunk_ids arguments (register_lora, restore_chunks_to_rag): lists of
\* distinct ids among 1..n, in either order.
ChunkIdLists(n) ==
  {s \in SeqsUpTo(1..n, 2) : \A i, j \in DOMAIN s : i # j => s[i] # s[j]}

\* lora_id = None on a chunk (DataChunk.__init__), chunk_ids = None as the
\* argument of restore_chunks_to_rag.
NoLora == 0
NullIds == <<0>>

\* default=repr-like slip: the value is not what str() gives.
json_default_lossy(v) == IF v.kind = "obj" THEN Str("object") ELSE v

json_default(v) == IF v.kind = "obj" THEN Str(v.val) ELSE v

\* json.dump(documents, f, default=str) followed by json.load(f).
json_dump(documents) == [i \in DOMAIN documents |-> json_default(documents[i])]

json_load(text) == text

IsJsonNative(documents) == \A i \in DOMAIN documents : documents[i].kind = "str"

\* --------------------------------------------------------------- helpers
Put(f, k, v) == [x \in (DOMAIN f) \cup {k} |-> IF x = k THEN v ELSE f[x]]

RECURSIVE SetToSeq(_)
SetToSeq(S) ==
  IF S = {} THEN <<>>
  ELSE LET m == CHOOSE x \in S : \A y \in S : x <= y
       IN <<m>> \o SetToSeq(S \ {m})

Range(s) == {s[i] : i \in DOMAIN s}

Reverse(s) == [i \in DOMAIN s |-> s[Len(s) + 1 - i]]

RECURSIVE Flatten(_)
Flatten(ss) == IF ss = <<>> THEN <<>> ELSE Head(ss) \o Flatten(Tail(ss))

\* ------------------------------------------------------------------ state
VARIABLES
  alive,                \* the process is running (a ChunkManager exists)
  current_model,        \* self.current_model
  known_models,         \* self.model_registry['known_models']: hash -> record
  chunk_registry,       \* self.chunk_registry: chunk id -> record
  chunk_counter,        \* self._chunk_counter
  lora_registry,        \* self.lora_registry: lora id -> record
  lora_counter,         \* self._lora_counter
  disk_chunk_registry,  \* chunks/chunk_registry.json
  disk_lora_registry,   \* loras/lora_registry.json
  disk_model_registry,  \* models/model_registry.json
  documents_json,       \* chunks/<chunk_id>/documents.json: chunk id -> list
  passed,               \* history: the list given to the create_chunk call of each id
  stale_loras,          \* history: adapters a crashed switch left active
  torn_documents,       \* chunk ids whose documents.json holds incomplete JSON
  manifest_json,        \* chunks/<chunk_id>/manifest.json: chunk id -> record
  operations_jsonl,     \* history/operations.jsonl: the entries, where they are tracked
  progress_tracker,     \* server.py's ProgressTracker: status, is_running, _cancel_requested
  train_calls,          \* per executor job: where its lora_trainer.train call stands
  response,             \* the HTTP status of the last /training request
  cancelled_jobs,       \* history: the jobs that were in progress when a cancel request came
  calls,                \* per thread: the register_model / handle_model_switch call in progress
  last                  \* history: the last operation

vars == <<alive, current_model, known_models, chunk_registry, chunk_counter,
          lora_registry, lora_counter, disk_chunk_registry, disk_lora_registry,
          disk_model_registry, documents_json, passed, stale_loras, torn_documents,
          manifest_json, operations_jsonl, progress_tracker, train_calls, response,
          cancelled_jobs, calls, last>>

\* The training side of the server, and the ChunkManager side.
training_vars == <<progress_tracker, train_calls, response, cancelled_jobs>>

manager_vars == <<alive, current_model, known_models, chunk_registry, chunk_counter,
                  lora_registry, lora_counter, disk_chunk_registry, disk_lora_registry,
                  disk_model_registry, documents_json, passed, stale_loras, torn_documents,
                  manifest_json, operations_jsonl, calls, last>>

\* last: which operation ran last; for handle_model_switch also its path, its
\* `changed` and whether it directly followed a switch with the same path;
\* for register_model its path and friendly_name and whether it directly
\* followed a register_model with the same two arguments;
\* logged is what the operation appended to history/operations.jsonl, the
\* `operation` field of each entry in the order written.
NoResult ==
  [op |-> "none", path |-> None, name |-> None, changed |-> FALSE, second |-> FALSE,
   logged |-> <<>>]

Other(name) ==
  [NoResult EXCEPT !.op = IF name \in {"restart", "crash"} THEN name ELSE "other"]

\* _log_operation: one line appended per call.
Logged(result, operations) == [result EXCEPT !.logged = operations]

\* history/operations.jsonl. The entries of the last operation are always in
\* last.logged; the file as a whole (the `operation` field of each line, in
\* file order) is followed only in behaviours that start with tracked set,
\* and so are the `history` lists of the chunk records.
UntrackedLog == [tracked |-> FALSE, lines |-> <<>>]
EmptyLog == [tracked |-> TRUE, lines |-> <<>>]

\* The file if _log_operation opened it for writing instead of appending.
Appended_truncating(file, operations) ==
  IF file.tracked THEN [file EXCEPT !.lines = operations] ELSE file

\* The file after _log_operation has run once per entry of operations:
\* open(log_file, 'a') and one line written per call.
Appended(file, operations) ==
  IF file.tracked THEN [file EXCEPT !.lines = @ \o operations] ELSE file

\* n entries of one operation type.
Times(n, operation) == [i \in 1..n |-> operation]

\* ------------------------------------------------------------ registry files
\* A registry file: absent, unparseable, or the JSON of a registry.
MissingFile == [state |-> "missing"]
CorruptFile == [state |-> "corrupt"]

\* _save_chunk_registry / _save_lora_registry / _save_model_registry: the whole
\* in-memory registry, with its counter, replaces the file.
ChunkFile(reg, counter) == [state |-> "ok", entries |-> reg, counter |-> counter]
LoraFile(reg, counter) == [state |-> "ok", entries |-> reg, counter |-> counter]
ModelFile(known, current) == [state |-> "ok", known_models |-> known, current_model |-> current]

\* _load_registry: json.load of an existing file; {} when the file is absent or
\* does not parse.
Readable(file) == file.state = "ok"

\* A KnownModel record. known says that the hash is a key of known_models.
\* The timestamps are kept as the ordinal of the registration of this model
\* at which they were written: first_seen is written at the first one,
\* last_seen at every one.
NoIdentity == [path |-> None, friendly_name |-> None]

UnknownModel ==
  [known |-> FALSE, lora_ids |-> <<>>, identity |-> NoIdentity, friendly_name |-> None,
   first_seen |-> 0, last_seen |-> 0, times_used |-> 0]

NoModels == [h \in Hashes |-> UnknownModel]

\* ProgressTracker.__init__: status 'idle', not running, no cancellation
\* requested. The jobs are the lora_trainer.train calls handed to the
\* executor, numbered in the order submitted.
IdleTracker ==
  [status |-> "idle", percentage |-> 0, total_steps |-> 0, error |-> "",
   is_running |-> FALSE, _cancel_requested |-> FALSE]

Jobs == 1..MaxJobs

NoResponse == 0

\* A thread's call: where it stands and the locals it holds. previous_model is
\* handle_model_switch's read of current_model, changed is register_model's
\* model_changed, private says that register_model's known_models is the fresh
\* {} that .get('known_models', {}) returns while the registry has no such key.
Threads == 1..MaxThreads

IdleCall ==
  [pc |-> "idle", kind |-> None, path |-> None, previous_model |-> None,
   changed |-> FALSE, private |-> FALSE]

AllIdle == \A t \in Threads : calls[t].pc = "idle"

Init ==
  /\ alive = TRUE
  /\ current_model = None
  /\ known_models = NoModels
  /\ chunk_registry = <<>>
  /\ chunk_counter = 0
  /\ lora_registry = <<>>
  /\ lora_counter = 0
  /\ disk_chunk_registry = MissingFile
  /\ disk_lora_registry = MissingFile
  /\ disk_model_registry = MissingFile
  /\ documents_json = <<>>
  /\ passed = <<>>
  /\ stale_loras = {}
  /\ torn_documents = {}
  /\ manifest_json = <<>>
  /\ operations_jsonl = UntrackedLog
  /\ progress_tracker = IdleTracker
  /\ train_calls = [j \in Jobs |-> "none"]
  /\ response = NoResponse
  /\ cancelled_jobs = {}
  /\ calls = [t \in Threads |-> IdleCall]
  /\ last = NoResult

\* __init__: self._chunk_counter = self.chunk_registry.get('_counter', 0), and
\* the same for the adapters.
LoadCounter(file) == IF Readable(file) THEN file.counter ELSE 0

\* ChunkManager.__init__ on an existing data directory: the registries are
\* loaded from disk, current_model and the counters are taken from them.
Restart ==
  /\ alive' = TRUE
  /\ chunk_registry' = IF Readable(disk_chunk_registry) THEN disk_chunk_registry.entries ELSE <<>>
  /\ chunk_counter' = LoadCounter(disk_chunk_registry)
  /\ lora_registry' = IF Readable(disk_lora_registry) THEN disk_lora_registry.entries ELSE <<>>
  /\ lora_counter' = LoadCounter(disk_lora_registry)
  /\ known_models' = IF Readable(disk_model_registry) THEN disk_model_registry.known_models ELSE NoModels
  /\ current_model' = IF Readable(disk_model_registry) THEN disk_model_registry.current_model ELSE None
  /\ last' = Other("restart")
  /\ operations_jsonl' = Appended(operations_jsonl, last'.logged)
  /\ UNCHANGED training_vars
  /\ UNCHANGED <<calls, torn_documents, manifest_json, disk_chunk_registry, disk_lora_registry, disk_model_registry,
                 documents_json, passed, stale_loras>>

\* ------------------------------------------------------- model management
\* model_changed without the `previous_model and` guard.
model_changed_unguarded(model_path) == current_model # identify_model(model_path)

\* register_model's model_changed: previous_model and previous_model != identity_hash.
model_changed(model_path) ==
  current_model # None /\ current_model # identify_model(model_path)

\* The state change of register_model: the model is recorded as known, becomes
\* current_model, and the models registry is saved.
\* register_model's "store model info" with the record rebuilt at every call.
Registered_anew(known, model_path, friendly_name) ==
  LET identity_hash == identify_model(model_path) IN
  [known EXCEPT ![identity_hash] =
     [known |-> TRUE, lora_ids |-> <<>>,
      identity |-> [path |-> model_path, friendly_name |-> friendly_name],
      friendly_name |-> IF friendly_name # None THEN friendly_name ELSE basename(model_path),
      first_seen |-> @.times_used + 1, last_seen |-> @.times_used + 1,
      times_used |-> @.times_used + 1]]

\* register_model's "store model info" without its is_new branch.
Registered_without_new(known, model_path, friendly_name) ==
  LET identity_hash == identify_model(model_path) IN
  IF known[identity_hash].known
  THEN [known EXCEPT ![identity_hash].last_seen = known[identity_hash].times_used + 1,
                     ![identity_hash].times_used = @ + 1]
  ELSE [known EXCEPT ![identity_hash].times_used = @ + 1]

\* register_model's "store model info" on a known_models value: a new record
\* for a new hash, last_seen and times_used of the record of a known one.
Registered(known, model_path, friendly_name) ==
  LET identity_hash == identify_model(model_path)
      is_new == ~known[identity_hash].known
  IN
  IF is_new
  THEN [known EXCEPT ![identity_hash] =
          [known |-> TRUE, lora_ids |-> <<>>,
           identity |-> [path |-> model_path, friendly_name |-> friendly_name],
           friendly_name |-> IF friendly_name # None THEN friendly_name
                             ELSE basename(model_path),
           first_seen |-> 1, last_seen |-> 1, times_used |-> 1]]
  ELSE [known EXCEPT ![identity_hash].last_seen = known[identity_hash].times_used + 1,
                     ![identity_hash].times_used = @ + 1]

\* The registrations of a model are counted up to MaxTimesUsed.
UsesLeft(model_path) == known_models[identify_model(model_path)].times_used < MaxTimesUsed

RegisterModelNamed(model_path, friendly_name) ==
  /\ known_models' = Registered(known_models, model_path, friendly_name)
  /\ current_model' = identify_model(model_path)
  /\ disk_model_registry' = ModelFile(known_models', current_model')

\* The state change of register_model(model_path) with the default name.
RegisterModel(model_path) == RegisterModelNamed(model_path, None)

register_model_named(model_path, friendly_name) ==
  /\ alive
  /\ RegisterModelNamed(model_path, friendly_name)
  /\ last' = [NoResult EXCEPT
                !.op = "register_model",
                !.path = model_path,
                !.name = friendly_name,
                !.second = /\ last.op = "register_model"
                           /\ last.path = model_path
                           /\ last.name = friendly_name,
                !.logged = <<"model_registered">>]
  /\ operations_jsonl' = Appended(operations_jsonl, last'.logged)
  /\ UNCHANGED training_vars
  /\ UNCHANGED <<calls, torn_documents, manifest_json, alive, chunk_registry, chunk_counter, lora_registry, lora_counter,
                 disk_chunk_registry, disk_lora_registry, documents_json, passed,
                 stale_loras>>

\* register_model(model_path), friendly_name left to its default.
register_model(model_path) == register_model_named(model_path, None)

\* detect_model_change without the `is not None` test.
detect_result_unguarded(model_path) ==
  [changed |-> current_model # identify_model(model_path),
   known |-> known_models[identify_model(model_path)].known,
   current_hash |-> current_model,
   new_hash |-> identify_model(model_path),
   new_name |-> basename(model_path)]

\* The dict detect_model_change returns, from the state it is called in.
detect_result(model_path) ==
  [changed |-> current_model # None /\ current_model # identify_model(model_path),
   known |-> known_models[identify_model(model_path)].known,
   current_hash |-> current_model,
   new_hash |-> identify_model(model_path),
   new_name |-> basename(model_path)]

\* detect_model_change identifies the model and reads current_model and
\* known_models; it assigns nothing, saves nothing and logs nothing.
detect_model_change(model_path) ==
  /\ alive
  /\ last' = [NoResult EXCEPT !.op = "detect_model_change", !.path = model_path]
  /\ operations_jsonl' = Appended(operations_jsonl, last'.logged)
  /\ UNCHANGED training_vars
  /\ UNCHANGED <<calls, torn_documents, manifest_json, alive, current_model, known_models, chunk_registry,
                 chunk_counter, lora_registry, lora_counter, disk_chunk_registry,
                 disk_lora_registry, disk_model_registry, documents_json, passed,
                 stale_loras>>

\* The raise placed after the registry update instead of before it.
identify_model_raises_after_store(model_path) ==
  /\ alive
  /\ RegisterModel(model_path)
  /\ last' = [NoResult EXCEPT !.op = "identify_failed", !.path = model_path]
  /\ operations_jsonl' = Appended(operations_jsonl, last'.logged)
  /\ UNCHANGED training_vars
  /\ UNCHANGED <<calls, torn_documents, manifest_json, alive, chunk_registry, chunk_counter, lora_registry, lora_counter,
                 disk_chunk_registry, disk_lora_registry, documents_json, passed,
                 stale_loras>>

\* register_model, or handle_model_switch through it, when identify_model
\* raises (the weight file cannot be read): identification is the first thing
\* register_model does, and handle_model_switch has only read current_model
\* into a local before calling it.
identify_model_raises(model_path) ==
  /\ alive
  /\ last' = [NoResult EXCEPT !.op = "identify_failed", !.path = model_path]
  /\ operations_jsonl' = Appended(operations_jsonl, last'.logged)
  /\ UNCHANGED training_vars
  /\ UNCHANGED <<calls, torn_documents, manifest_json, alive, current_model, known_models, chunk_registry, chunk_counter,
                 lora_registry, lora_counter, disk_chunk_registry, disk_lora_registry,
                 disk_model_registry, documents_json, passed, stale_loras>>

\* DataChunk.add_history and the history.append of _update_chunk_status: one
\* entry appended, of which the action is kept.
Recorded(history, action) ==
  IF operations_jsonl.tracked THEN Append(history, action) ELSE history

\* ------------------------------------------------------- chunk management
\* The DataChunk record create_chunk registers.
NewChunk(documents) ==
  [status |-> PENDING, model_identity_hash |-> current_model, lora_id |-> NoLora,
   document_count |-> Len(documents), restore_reason |-> None,
   history |-> Recorded(<<>>, "created")]

create_chunk(documents) ==
  LET chunk_id == chunk_counter + 1 IN
  /\ alive
  /\ chunk_counter' = chunk_id
  /\ documents_json' = Put(documents_json, chunk_id, json_dump(documents))
  /\ passed' = Put(passed, chunk_id, documents)
  /\ manifest_json' = Put(manifest_json, chunk_id, NewChunk(documents))
  /\ chunk_registry' = Put(chunk_registry, chunk_id, NewChunk(documents))
  /\ disk_chunk_registry' = ChunkFile(chunk_registry', chunk_counter')
  /\ torn_documents' = torn_documents \ {chunk_id}
  /\ last' = Logged(Other("create_chunk"), <<"chunk_created">>)
  /\ operations_jsonl' = Appended(operations_jsonl, last'.logged)
  /\ UNCHANGED training_vars
  /\ UNCHANGED <<calls, alive, current_model, known_models, lora_registry, lora_counter,
                 disk_lora_registry, disk_model_registry, stale_loras>>

\* SetStatus that enters a record for an id the registry does not have.
SetStatus_upsert(reg, chunk_id, status) ==
  IF chunk_id \in DOMAIN reg
  THEN [reg EXCEPT ![chunk_id].status = status,
                   ![chunk_id].history = Recorded(@, status)]
  ELSE Put(reg, chunk_id, [NewChunk(<<>>) EXCEPT !.status = status])

\* SetStatus that assigns the status and appends nothing to the history.
SetStatus_unrecorded(reg, chunk_id, status) ==
  IF chunk_id \in DOMAIN reg THEN [reg EXCEPT ![chunk_id].status = status] ELSE reg

\* _update_chunk_status on a registry value: an unknown id is ignored, any
\* other request sets the status and appends it to the record's history.
SetStatus(reg, chunk_id, status) ==
  IF chunk_id \in DOMAIN reg
  THEN [reg EXCEPT ![chunk_id].status = status,
                   ![chunk_id].history = Recorded(@, status)]
  ELSE reg

\* mark_chunk_trained with the lora_id written and the status left as it was.
SetTrained_status_skipped(reg, chunk_id, lora_id) ==
  IF chunk_id \in DOMAIN reg THEN [reg EXCEPT ![chunk_id].lora_id = lora_id] ELSE reg

\* mark_chunk_trained on a registry value: lora_id first, then the status.
SetTrained(reg, chunk_id, lora_id) ==
  SetStatus(IF chunk_id \in DOMAIN reg THEN [reg EXCEPT ![chunk_id].lora_id = lora_id] ELSE reg,
            chunk_id, TRAINED)

\* What _update_chunk_status logs for the ids of a list: one entry per id
\* that is in the registry.
StatusLog(chunk_ids) ==
  Times(Len(SelectSeq(chunk_ids, LAMBDA c : c \in DOMAIN chunk_registry)),
        "chunk_status_changed")

\* What a mark_chunk_* call leaves in `last`: one chunk_status_changed entry
\* logged, or the call ignored (a warning is logged) for an unknown id.
StatusResult(chunk_id) ==
  IF chunk_id \in DOMAIN chunk_registry
  THEN Logged(Other("mark_chunk"), StatusLog(<<chunk_id>>))
  ELSE [NoResult EXCEPT !.op = "unknown_chunk"]

\* The manifests after _update_chunk_status has run for the ids: the manifest
\* of each id that is in the registry and has a manifest.json is rewritten
\* with the chunk's registry record.
ManifestsWritten(chunk_ids) ==
  [c \in DOMAIN manifest_json |->
     IF c \in chunk_ids /\ c \in DOMAIN chunk_registry
     THEN chunk_registry'[c] ELSE manifest_json[c]]

\* The registry file after a call that saves only when it found a chunk.
SavedIfKnown(chunk_ids) ==
  IF \E c \in chunk_ids : c \in DOMAIN chunk_registry
  THEN ChunkFile(chunk_registry', chunk_counter)
  ELSE disk_chunk_registry

_update_chunk_status(chunk_id, status) ==
  /\ alive
  /\ chunk_registry' = SetStatus(chunk_registry, chunk_id, status)
  /\ disk_chunk_registry' = SavedIfKnown({chunk_id})
  /\ manifest_json' = ManifestsWritten({chunk_id})
  /\ UNCHANGED <<calls, torn_documents, alive, current_model, known_models, chunk_counter, lora_registry,
                 lora_counter, disk_lora_registry, disk_model_registry, documents_json,
                 passed, stale_loras>>

mark_chunk_training(chunk_id) ==
  /\ _update_chunk_status(chunk_id, TRAINING)
  /\ last' = StatusResult(chunk_id)
  /\ operations_jsonl' = Appended(operations_jsonl, last'.logged)
  /\ UNCHANGED training_vars

mark_chunk_failed(chunk_id) ==
  /\ _update_chunk_status(chunk_id, FAILED)
  /\ last' = StatusResult(chunk_id)
  /\ operations_jsonl' = Appended(operations_jsonl, last'.logged)
  /\ UNCHANGED training_vars

mark_chunk_restored(chunk_id) ==
  /\ _update_chunk_status(chunk_id, RESTORED)
  /\ last' = StatusResult(chunk_id)
  /\ operations_jsonl' = Appended(operations_jsonl, last'.logged)
  /\ UNCHANGED training_vars

mark_chunk_trained(chunk_id, lora_id) ==
  /\ alive
  /\ chunk_registry' = SetTrained(chunk_registry, chunk_id, lora_id)
  /\ disk_chunk_registry' = SavedIfKnown({chunk_id})
  /\ manifest_json' = ManifestsWritten({chunk_id})
  /\ last' = StatusResult(chunk_id)
  /\ operations_jsonl' = Appended(operations_jsonl, last'.logged)
  /\ UNCHANGED training_vars
  /\ UNCHANGED <<calls, torn_documents, alive, current_model, known_models, chunk_counter, lora_registry,
                 lora_counter, disk_lora_registry, disk_model_registry, documents_json,
                 passed, stale_loras>>

\* mark_chunk_trained when _save_chunk_registry raises (the disk is full, the
\* file cannot be written): lora_id and status have been assigned in memory,
\* open(path, 'w') has truncated the file, and the exception leaves the method
\* before the manifest and the log are written.
mark_chunk_trained_save_fails(chunk_id, lora_id) ==
  /\ alive
  /\ chunk_id \in DOMAIN chunk_registry
  /\ chunk_registry' = SetTrained(chunk_registry, chunk_id, lora_id)
  /\ disk_chunk_registry' = CorruptFile
  /\ last' = [NoResult EXCEPT !.op = "mark_chunk_trained_failed"]
  /\ operations_jsonl' = Appended(operations_jsonl, last'.logged)
  /\ UNCHANGED training_vars
  /\ UNCHANGED <<calls, torn_documents, manifest_json, alive, current_model, known_models, chunk_counter, lora_registry,
                 lora_counter, disk_lora_registry, disk_model_registry, documents_json,
                 passed, stale_loras>>

\* get_chunk_documents: the parsed documents.json, None when the file is absent.
HasDocuments(chunk_id) == chunk_id \in DOMAIN documents_json \cup torn_documents

\* json.load raises on a documents.json that holds incomplete JSON.
Raises(chunk_id) == chunk_id \in torn_documents

get_chunk_documents(chunk_id) == json_load(documents_json[chunk_id])

\* can_restore with every trained chunk restorable, whatever its model.
CanRestore_any_trained(chunk, target) ==
  \/ chunk.status = TRAINED
  \/ chunk.status = FAILED
  \/ chunk.status = RESTORED

\* get_restorable_chunks: can_restore for one chunk record.
CanRestore(chunk, target) ==
  \/ chunk.status = TRAINED /\ chunk.model_identity_hash # target
  \/ chunk.status = FAILED
  \/ chunk.status = RESTORED

\* target = model_identity_hash or self.current_model
Target(model_identity_hash) ==
  IF model_identity_hash = None THEN current_model ELSE model_identity_hash

\* get_restorable_chunks(model_identity_hash): the ids, in registry order.
get_restorable_chunks(model_identity_hash) ==
  SetToSeq({c \in DOMAIN chunk_registry :
              /\ CanRestore(chunk_registry[c], Target(model_identity_hash))
              /\ HasDocuments(c)})

\* get_restorable_chunks writes restore_reason into the in-memory record of
\* every chunk it returns (chunk_data is the registry's own dict); nothing is
\* saved by it.
Annotated(reg, target) ==
  [c \in DOMAIN reg |->
     IF CanRestore(reg[c], target) /\ HasDocuments(c)
     THEN [reg[c] EXCEPT !.restore_reason =
             IF reg[c].status = TRAINED THEN "model_mismatch" ELSE reg[c].status]
     ELSE reg[c]]

\* -------------------------------------------------------- lora management
NewLora(chunk_ids) ==
  [model_identity_hash |-> current_model, status |-> "active", chunk_ids |-> chunk_ids]

RECURSIVE MarkAllTrained(_, _, _)
MarkAllTrained(reg, chunk_ids, lora_id) ==
  IF chunk_ids = <<>> THEN reg
  ELSE MarkAllTrained(SetTrained(reg, Head(chunk_ids), lora_id), Tail(chunk_ids), lora_id)

register_lora(chunk_ids) ==
  LET lora_id == lora_counter + 1
      is_known == current_model # None /\ known_models[current_model].known
  IN
  /\ alive
  /\ lora_counter' = lora_id
  /\ lora_registry' = Put(lora_registry, lora_id, NewLora(chunk_ids))
  /\ disk_lora_registry' = LoraFile(lora_registry', lora_counter')
  /\ known_models' =
       IF is_known /\ lora_id \notin Range(known_models[current_model].lora_ids)
       THEN [known_models EXCEPT ![current_model].lora_ids = Append(@, lora_id)]
       ELSE known_models
  /\ disk_model_registry' =
       IF is_known THEN ModelFile(known_models', current_model) ELSE disk_model_registry
  /\ chunk_registry' = MarkAllTrained(chunk_registry, chunk_ids, lora_id)
  /\ disk_chunk_registry' = SavedIfKnown(Range(chunk_ids))
  /\ manifest_json' = ManifestsWritten(Range(chunk_ids))
  /\ last' = Logged(Other("register_lora"), StatusLog(chunk_ids) \o <<"lora_registered">>)
  /\ operations_jsonl' = Appended(operations_jsonl, last'.logged)
  /\ UNCHANGED training_vars
  /\ UNCHANGED <<calls, torn_documents, alive, current_model, chunk_counter, documents_json, passed, stale_loras>>

\* record.path: loras_dir / model_<current_model at registration> / lora_id.
LoraPath(lora_id) == <<lora_registry[lora_id].model_identity_hash, lora_id>>

NoPath == <<>>

\* select_lora without the test of the 'deleted' status.
select_result_with_deleted(lora_id) ==
  IF lora_id \notin DOMAIN lora_registry
  THEN [null |-> TRUE, compatible |-> FALSE, path |-> NoPath, reason |-> ""]
  ELSE LET lora_model == lora_registry[lora_id].model_identity_hash IN
       IF lora_model # None /\ lora_model # current_model
       THEN [null |-> FALSE, compatible |-> FALSE, path |-> NoPath,
             reason |-> "LoRA trained for different model"]
       ELSE [null |-> FALSE, compatible |-> TRUE, path |-> LoraPath(lora_id), reason |-> ""]

\* What select_lora returns, from the state it is called in: None, or a dict
\* with compatible and either reason or path.
select_result(lora_id) ==
  IF lora_id \notin DOMAIN lora_registry
  THEN [null |-> TRUE, compatible |-> FALSE, path |-> NoPath, reason |-> ""]
  ELSE IF lora_registry[lora_id].status = "deleted"
  THEN [null |-> TRUE, compatible |-> FALSE, path |-> NoPath, reason |-> ""]
  ELSE LET lora_model == lora_registry[lora_id].model_identity_hash IN
       IF lora_model # None /\ lora_model # current_model
       THEN [null |-> FALSE, compatible |-> FALSE, path |-> NoPath,
             reason |-> "LoRA trained for different model"]
       ELSE [null |-> FALSE, compatible |-> TRUE, path |-> LoraPath(lora_id), reason |-> ""]

\* select_lora reads the registry and current_model and writes nothing.
select_lora(lora_id) ==
  /\ alive
  /\ last' = [NoResult EXCEPT !.op = "select_lora"]
  /\ operations_jsonl' = Appended(operations_jsonl, last'.logged)
  /\ UNCHANGED training_vars
  /\ UNCHANGED <<calls, torn_documents, manifest_json, alive, current_model, known_models, chunk_registry,
                 chunk_counter, lora_registry, lora_counter, disk_chunk_registry,
                 disk_lora_registry, disk_model_registry, documents_json, passed,
                 stale_loras>>

\* The copy placed after the registry update instead of before it.
register_lora_fails_after_store(chunk_ids) ==
  LET lora_id == lora_counter + 1 IN
  /\ alive
  /\ lora_counter' = lora_id
  /\ lora_registry' = Put(lora_registry, lora_id, NewLora(chunk_ids))
  /\ disk_lora_registry' = LoraFile(lora_registry', lora_counter')
  /\ last' = [NoResult EXCEPT !.op = "register_lora_failed"]
  /\ operations_jsonl' = Appended(operations_jsonl, last'.logged)
  /\ UNCHANGED training_vars
  /\ UNCHANGED <<calls, torn_documents, manifest_json, alive, current_model, known_models, chunk_registry, chunk_counter,
                 disk_chunk_registry, disk_model_registry, documents_json, passed,
                 stale_loras>>

\* register_lora when shutil.copy2 raises: the counter has been incremented
\* and the LoRARecord built, the target directory exists; the exception leaves
\* the method before the record is stored and before anything is saved.
register_lora_copy_fails(chunk_ids) ==
  /\ alive
  /\ lora_counter' = lora_counter + 1
  /\ last' = [NoResult EXCEPT !.op = "register_lora_failed"]
  /\ operations_jsonl' = Appended(operations_jsonl, last'.logged)
  /\ UNCHANGED training_vars
  /\ UNCHANGED <<calls, torn_documents, manifest_json, alive, current_model, known_models, chunk_registry, chunk_counter,
                 lora_registry, disk_chunk_registry, disk_lora_registry,
                 disk_model_registry, documents_json, passed, stale_loras>>

\* mark_lora_unusable / delete_lora on a registry value.
\* The status change of an adapter record that also clears its model binding.
SetLoraStatus_unbinding(reg, ids, status) ==
  [l \in DOMAIN reg |->
     IF l \in ids THEN [reg[l] EXCEPT !.status = status, !.model_identity_hash = None]
     ELSE reg[l]]

SetLoraStatus(reg, ids, status) ==
  [l \in DOMAIN reg |-> IF l \in ids THEN [reg[l] EXCEPT !.status = status] ELSE reg[l]]

set_lora_status(lora_id, status) ==
  /\ alive
  /\ lora_registry' = SetLoraStatus(lora_registry, {lora_id}, status)
  /\ disk_lora_registry' =
       IF lora_id \in DOMAIN lora_registry
       THEN LoraFile(lora_registry', lora_counter) ELSE disk_lora_registry
  /\ UNCHANGED <<calls, torn_documents, manifest_json, alive, current_model, known_models, chunk_registry, chunk_counter,
                 lora_counter, disk_chunk_registry, disk_model_registry, documents_json,
                 passed, stale_loras>>

mark_lora_unusable(lora_id) ==
  /\ set_lora_status(lora_id, "unusable")
  /\ last' = Logged(Other("mark_lora_unusable"),
                     IF lora_id \in DOMAIN lora_registry THEN <<"lora_marked_unusable">> ELSE <<>>)
  /\ operations_jsonl' = Appended(operations_jsonl, last'.logged)
  /\ UNCHANGED training_vars

delete_lora(lora_id) ==
  /\ set_lora_status(lora_id, "deleted")
  /\ last' = Logged(Other("delete_lora"),
                     IF lora_id \in DOMAIN lora_registry THEN <<"lora_deleted">> ELSE <<>>)
  /\ operations_jsonl' = Appended(operations_jsonl, last'.logged)
  /\ UNCHANGED training_vars

\* get_compatible_loras on a registry value: the adapters bound to target_hash
\* whose status is not 'deleted', newest (created_at) first.
CompatibleIn(reg, target_hash) ==
  Reverse(SetToSeq({l \in DOMAIN reg :
                      /\ reg[l].model_identity_hash = target_hash
                      /\ reg[l].status # "deleted"}))

\* get_compatible_loras(model_identity_hash): the argument, or current_model
\* when it is None; [] when neither is set.
get_compatible_loras(model_identity_hash) ==
  LET target_hash == IF model_identity_hash # None THEN model_identity_hash
                     ELSE current_model
  IN IF target_hash = None THEN <<>> ELSE CompatibleIn(lora_registry, target_hash)

\* --------------------------------------------------- model switch handling
\* The loop without its status == 'active' test.
BecameUnusable_any_status(previous_model) ==
  {l \in DOMAIN lora_registry : lora_registry[l].model_identity_hash = previous_model}

\* handle_model_switch: the adapters its loop marks, those bound to the
\* previous model and still active.
BecameUnusable(previous_model) ==
  {l \in DOMAIN lora_registry :
     /\ lora_registry[l].model_identity_hash = previous_model
     /\ lora_registry[l].status = "active"}

\* What handle_model_switch logs: register_model's entry, then one entry per
\* adapter marked and the model_switch entry when the model changed.
SwitchLog(changed, marked) ==
  <<"model_registered">> \o
  (IF changed THEN Times(marked, "lora_marked_unusable") \o <<"model_switch">> ELSE <<>>)

\* The dict handle_model_switch returns, from the state it is called in.
switch_result(new_model_path) ==
  LET previous_model == current_model
      new_model_hash == identify_model(new_model_path)
      changed == model_changed(new_model_path)
      marked == SetLoraStatus(lora_registry, BecameUnusable(previous_model), "unusable")
  IN [changed |-> changed,
      previous_model |-> previous_model,
      new_model |-> new_model_hash,
      unusable_loras |-> IF changed THEN SetToSeq(BecameUnusable(previous_model)) ELSE <<>>,
      restorable_chunks |-> IF changed THEN get_restorable_chunks(new_model_hash) ELSE <<>>,
      compatible_loras |-> IF changed THEN CompatibleIn(marked, new_model_hash) ELSE <<>>]

handle_model_switch(new_model_path) ==
  LET result == switch_result(new_model_path)
      unusable == Range(result.unusable_loras)
  IN
  /\ alive
  /\ RegisterModel(new_model_path)
  /\ lora_registry' = SetLoraStatus(lora_registry, unusable, "unusable")
  /\ disk_lora_registry' =
       IF unusable # {} THEN LoraFile(lora_registry', lora_counter) ELSE disk_lora_registry
  /\ chunk_registry' =
       IF result.changed THEN Annotated(chunk_registry, result.new_model) ELSE chunk_registry
  /\ last' = [NoResult EXCEPT
                !.op = "handle_model_switch",
                !.path = new_model_path,
                !.changed = result.changed,
                !.second = (last.op = "handle_model_switch" /\ last.path = new_model_path),
                !.logged = SwitchLog(result.changed, Cardinality(unusable))]
  /\ operations_jsonl' = Appended(operations_jsonl, last'.logged)
  /\ UNCHANGED training_vars
  /\ stale_loras' = {}
  /\ UNCHANGED <<calls, torn_documents, manifest_json, alive, chunk_counter, lora_counter, disk_chunk_registry,
                 documents_json, passed>>

\* restore_chunks_to_rag: `if documents:` is false for a missing file and for
\* an empty list.
Truthy(chunk_id) ==
  HasDocuments(chunk_id) /\ ~Raises(chunk_id) /\ get_chunk_documents(chunk_id) # <<>>

RECURSIVE MarkAllRestored(_, _)
MarkAllRestored(reg, chunk_ids) ==
  IF chunk_ids = <<>> THEN reg
  ELSE MarkAllRestored(SetStatus(reg, Head(chunk_ids), RESTORED), Tail(chunk_ids))

\* The list the loop of restore_chunks_to_rag runs over: the argument, or every
\* restorable chunk when the argument is None.
RestoreIds(chunk_ids) ==
  IF chunk_ids = NullIds THEN get_restorable_chunks(current_model) ELSE chunk_ids

\* The dict restore_chunks_to_rag returns, from the state it is called in;
\* chunk_ids is the list the loop runs over.
restore_result(chunk_ids) ==
  LET ids == RestoreIds(chunk_ids)
      restored_chunks == SelectSeq(ids, Truthy)
  IN [chunk_ids |-> ids,
      restored_chunks |-> restored_chunks,
      failed_chunks |-> SelectSeq(ids, LAMBDA c : ~Truthy(c)),
      documents |->
        Flatten([i \in DOMAIN restored_chunks |-> get_chunk_documents(restored_chunks[i])])]

\* The ids the loop of restore_chunks_to_rag gets through: all of them, or
\* those before the first whose documents.json makes json.load raise.
RECURSIVE Processed(_)
Processed(ids) ==
  IF ids = <<>> \/ Raises(Head(ids)) THEN <<>>
  ELSE <<Head(ids)>> \o Processed(Tail(ids))

restore_chunks_to_rag(chunk_ids) ==
  LET restored_chunks == SelectSeq(RestoreIds(chunk_ids), Truthy) IN
  /\ alive
  /\ \A c \in Range(RestoreIds(chunk_ids)) : ~Raises(c)
  /\ chunk_registry' =
       MarkAllRestored(IF chunk_ids = NullIds
                       THEN Annotated(chunk_registry, current_model)
                       ELSE chunk_registry,
                       restored_chunks)
  /\ disk_chunk_registry' = SavedIfKnown(Range(restored_chunks))
  /\ manifest_json' = ManifestsWritten(Range(restored_chunks))
  /\ last' = [NoResult EXCEPT
                !.op = "restore_chunks_to_rag",
                !.logged = StatusLog(restored_chunks) \o <<"chunks_restored">>]
  /\ operations_jsonl' = Appended(operations_jsonl, last'.logged)
  /\ UNCHANGED training_vars
  /\ UNCHANGED <<calls, torn_documents, alive, current_model, known_models, chunk_counter, lora_registry,
                 lora_counter, disk_lora_registry, disk_model_registry, documents_json,
                 passed, stale_loras>>

\* restore_chunks_to_rag when get_chunk_documents raises inside the loop (no
\* try around json.load): the chunks before the offending id have been marked
\* and saved, the exception leaves the method, nothing is returned and no
\* chunks_restored entry is logged.
restore_chunks_to_rag_raises(chunk_ids) ==
  LET ids == RestoreIds(chunk_ids)
      restored_chunks == SelectSeq(Processed(ids), Truthy)
  IN
  /\ alive
  /\ \E c \in Range(ids) : Raises(c)
  /\ chunk_registry' =
       MarkAllRestored(IF chunk_ids = NullIds
                       THEN Annotated(chunk_registry, current_model)
                       ELSE chunk_registry,
                       restored_chunks)
  /\ disk_chunk_registry' = SavedIfKnown(Range(restored_chunks))
  /\ manifest_json' = ManifestsWritten(Range(restored_chunks))
  /\ last' = [NoResult EXCEPT
                !.op = "restore_chunks_to_rag_raised",
                !.logged = StatusLog(restored_chunks)]
  /\ operations_jsonl' = Appended(operations_jsonl, last'.logged)
  /\ UNCHANGED training_vars
  /\ UNCHANGED <<calls, torn_documents, alive, current_model, known_models, chunk_counter,
                 lora_registry, lora_counter, disk_lora_registry, disk_model_registry,
                 documents_json, passed, stale_loras>>

\* ------------------------------------------------- calls from two threads
\* No lock is taken anywhere in ChunkManager: a thread can be preempted
\* between any two statements of register_model and handle_model_switch. The
\* steps below cut the two methods at the statements that read or write the
\* shared fields.

\* A thread enters handle_model_switch: previous_model = self.current_model.
handle_model_switch_begin(t, new_model_path) ==
  /\ alive
  /\ calls[t].pc = "idle"
  /\ calls' = [calls EXCEPT ![t] =
                [IdleCall EXCEPT !.pc = "read", !.kind = "handle_model_switch",
                                 !.path = new_model_path,
                                 !.previous_model = current_model]]
  /\ last' = Other("handle_model_switch_begin")
  /\ operations_jsonl' = Appended(operations_jsonl, last'.logged)
  /\ UNCHANGED training_vars
  /\ UNCHANGED <<torn_documents, manifest_json, alive, current_model, known_models, chunk_registry, chunk_counter,
                 lora_registry, lora_counter, disk_chunk_registry, disk_lora_registry,
                 disk_model_registry, documents_json, passed, stale_loras>>

\* A thread enters register_model directly.
register_model_begin(t, model_path) ==
  /\ alive
  /\ calls[t].pc = "idle"
  /\ calls' = [calls EXCEPT ![t] =
                [IdleCall EXCEPT !.pc = "read", !.kind = "register_model",
                                 !.path = model_path]]
  /\ last' = Other("register_model_begin")
  /\ operations_jsonl' = Appended(operations_jsonl, last'.logged)
  /\ UNCHANGED training_vars
  /\ UNCHANGED <<torn_documents, manifest_json, alive, current_model, known_models, chunk_registry, chunk_counter,
                 lora_registry, lora_counter, disk_chunk_registry, disk_lora_registry,
                 disk_model_registry, documents_json, passed, stale_loras>>

\* register_model, the reads: known_models = self.model_registry.get(
\* 'known_models', {}), previous_model = self.current_model, model_changed.
\* The registry has the key 'known_models' once a model has been stored.
register_model_read(t) ==
  /\ alive
  /\ calls[t].pc = "read"
  /\ calls' = [calls EXCEPT ![t].pc = "store",
                            ![t].changed = model_changed(calls[t].path),
                            ![t].private = (\A h \in Hashes : ~known_models[h].known)]
  /\ last' = Other("register_model_read")
  /\ operations_jsonl' = Appended(operations_jsonl, last'.logged)
  /\ UNCHANGED training_vars
  /\ UNCHANGED <<torn_documents, manifest_json, alive, current_model, known_models, chunk_registry, chunk_counter,
                 lora_registry, lora_counter, disk_chunk_registry, disk_lora_registry,
                 disk_model_registry, documents_json, passed, stale_loras>>

\* register_model, the writes: the model is entered into the thread's
\* known_models, which is stored back into the registry; current_model is set
\* and the models registry saved. register_model returns, and so does a
\* handle_model_switch whose register_model saw no change.
register_model_store(t) ==
  LET identity_hash == identify_model(calls[t].path)
      mine == IF calls[t].private THEN NoModels ELSE known_models
  IN
  /\ alive
  /\ calls[t].pc = "store"
  /\ known_models' = Registered(mine, calls[t].path, None)
  /\ current_model' = identity_hash
  /\ disk_model_registry' = ModelFile(known_models', current_model')
  /\ calls' = [calls EXCEPT ![t].pc =
                IF calls[t].kind = "handle_model_switch" /\ calls[t].changed
                THEN "loop" ELSE "done"]
  /\ last' = Logged(Other("register_model_store"), <<"model_registered">>)
  /\ operations_jsonl' = Appended(operations_jsonl, last'.logged)
  /\ UNCHANGED training_vars
  /\ UNCHANGED <<torn_documents, manifest_json, alive, chunk_registry, chunk_counter, lora_registry, lora_counter,
                 disk_chunk_registry, disk_lora_registry, documents_json, passed,
                 stale_loras>>

\* handle_model_switch after register_model reported a change: the loop over
\* the adapters of the thread's previous_model, then get_restorable_chunks.
handle_model_switch_loop(t) ==
  LET unusable == IF calls[t].previous_model # None
                  THEN BecameUnusable(calls[t].previous_model) ELSE {}
  IN
  /\ alive
  /\ calls[t].pc = "loop"
  /\ lora_registry' = SetLoraStatus(lora_registry, unusable, "unusable")
  /\ disk_lora_registry' =
       IF unusable # {} THEN LoraFile(lora_registry', lora_counter) ELSE disk_lora_registry
  /\ chunk_registry' = Annotated(chunk_registry, identify_model(calls[t].path))
  /\ calls' = [calls EXCEPT ![t].pc = "done"]
  /\ last' = Logged(Other("handle_model_switch_loop"),
                     Times(Cardinality(unusable), "lora_marked_unusable") \o <<"model_switch">>)
  /\ operations_jsonl' = Appended(operations_jsonl, last'.logged)
  /\ UNCHANGED training_vars
  /\ UNCHANGED <<torn_documents, manifest_json, alive, current_model, known_models, chunk_counter, lora_counter,
                 disk_chunk_registry, disk_model_registry, documents_json, passed,
                 stale_loras>>

\* Both calls have returned; the threads are free for the next calls.
calls_return ==
  /\ alive
  /\ \A t \in Threads : calls[t].pc = "done"
  /\ calls' = [t \in Threads |-> IdleCall]
  /\ last' = Other("calls_return")
  /\ operations_jsonl' = Appended(operations_jsonl, last'.logged)
  /\ UNCHANGED training_vars
  /\ UNCHANGED <<torn_documents, manifest_json, alive, current_model, known_models, chunk_registry, chunk_counter,
                 lora_registry, lora_counter, disk_chunk_registry, disk_lora_registry,
                 disk_model_registry, documents_json, passed, stale_loras>>

\* ---------------------------------------------------------- operation log
\* Python's s[start:] for a list s: a negative start counts from the end and
\* is clamped at the first element, a start of 0 or more counts from the
\* front and is clamped at the end.
SliceFrom(s, start) ==
  LET n == Len(s)
      from == IF start < 0 THEN (IF n + start < 0 THEN 0 ELSE n + start)
              ELSE (IF start > n THEN n ELSE start)
  IN SubSeq(s, from + 1, n)

\* What get_operation_history(limit) returns: [] when the file is absent
\* (nothing was ever logged), else the parsed lines sliced as
\* entries[-limit:].
history_result(limit) ==
  LET entries == operations_jsonl.lines IN
  IF entries = <<>> THEN <<>> ELSE SliceFrom(entries, 0 - limit)

\* get_operation_history: reads the file and writes nothing.
get_operation_history(limit) ==
  /\ alive
  /\ operations_jsonl.tracked
  /\ last' = Other("get_operation_history")
  /\ operations_jsonl' = Appended(operations_jsonl, last'.logged)
  /\ UNCHANGED training_vars
  /\ UNCHANGED <<alive, current_model, known_models, chunk_registry, chunk_counter,
                 lora_registry, lora_counter, disk_chunk_registry, disk_lora_registry,
                 disk_model_registry, documents_json, passed, stale_loras,
                 torn_documents, manifest_json, calls>>

\* ----------------------------------------------------------------- queries
\* A query under the name `operation` that leaves `reg` as the in-memory
\* chunk registry and touches nothing else.
query(operation, reg) ==
  /\ alive
  /\ chunk_registry' = reg
  /\ last' = [NoResult EXCEPT !.op = operation]
  /\ operations_jsonl' = Appended(operations_jsonl, last'.logged)
  /\ UNCHANGED training_vars
  /\ UNCHANGED <<alive, current_model, known_models, chunk_counter, lora_registry,
                 lora_counter, disk_chunk_registry, disk_lora_registry,
                 disk_model_registry, documents_json, passed, stale_loras,
                 torn_documents, manifest_json, calls>>

Queries ==
  {"list_chunks", "list_untrained", "list_restorable", "list_compatible_adapters",
   "get_chunk", "get_chunk_documents", "overview"}

\* get_chunks_by_status and get_untrained_chunks assign chunk_data['chunk_id']
\* in the registry's records, which hold that key with that value since
\* DataChunk.to_dict: the records stay as they are.
list_chunks == query("list_chunks", chunk_registry)

list_untrained == query("list_untrained", chunk_registry)

\* get_restorable_chunks as a call of its own: the records it returns are the
\* registry's, with restore_reason assigned in them.
list_restorable(model_identity_hash) ==
  query("list_restorable", Annotated(chunk_registry, Target(model_identity_hash)))

\* get_compatible_loras, get_chunk and get_chunk_documents assign nothing.
list_compatible_adapters(model_identity_hash) ==
  query("list_compatible_adapters", chunk_registry)

get_chunk(chunk_id) == query("get_chunk", chunk_registry)

chunk_documents(chunk_id) == query("get_chunk_documents", chunk_registry)

\* get_overview counts the registries and calls get_compatible_loras(),
\* get_restorable_chunks() and get_untrained_chunks() for their lengths.
get_overview == query("overview", Annotated(chunk_registry, Target(None)))

\* ------------------------------------------------------------- HTTP routes
\* The status code each chunk route answers with, from the state the request
\* arrives in. POST /chunks/lora/select: 400 without a lora_id, 404 when
\* select_lora returns None, else 200.
select_lora_status(lora_id) ==
  IF lora_id = NoLora THEN 400
  ELSE IF select_result(lora_id).null THEN 404
  ELSE 200

\* POST /chunks/lora/{lora_id}/delete: 404 when delete_lora returns False.
delete_lora_status(lora_id) ==
  IF lora_id \in DOMAIN lora_registry THEN 200 ELSE 404

\* POST /chunks/lora/{lora_id}/unusable: mark_lora_unusable returns nothing,
\* and the route answers 200 whenever it did not raise.
mark_unusable_status(lora_id) == 200

\* GET /chunks/{chunk_id}: 404 when get_chunk returns None.
get_chunk_status(chunk_id) ==
  IF chunk_id \in DOMAIN chunk_registry THEN 200 ELSE 404

\* GET /chunks/{chunk_id}/documents: 404 when there is no documents.json,
\* 500 when json.load raises on it, else 200.
get_chunk_documents_status(chunk_id) ==
  IF chunk_id \in torn_documents THEN 500
  ELSE IF chunk_id \in DOMAIN documents_json THEN 200
  ELSE 404

\* ---------------------------------------------------------------- training
\* The jobs whose train call has been submitted and has not returned.
Unfinished == {j \in Jobs : train_calls[j] \in {"submitted", "training"}}

\* POST /training/start with the training module enabled. Without a base
\* model or with too little data the request ends with 400; with
\* progress_tracker.is_running set it ends with 409; otherwise
\* lora_trainer.train is handed to the executor and the handler returns
\* training_started. The handler does not write is_running.
start_training(base_model, enough_data) ==
  /\ IF ~base_model \/ ~enough_data
     THEN /\ response' = 400
          /\ UNCHANGED <<train_calls, progress_tracker>>
     ELSE IF progress_tracker.is_running
     THEN /\ response' = 409
          /\ UNCHANGED <<train_calls, progress_tracker>>
     ELSE /\ \E j \in Jobs : train_calls[j] = "none"
          /\ LET job == CHOOSE j \in Jobs :
                          /\ train_calls[j] = "none"
                          /\ \A i \in 1..(j - 1) : train_calls[i] # "none"
             IN train_calls' = [train_calls EXCEPT ![job] = "submitted"]
          /\ response' = 200
          /\ UNCHANGED progress_tracker
  /\ UNCHANGED cancelled_jobs
  /\ UNCHANGED manager_vars

\* ProgressTracker.start: a new _progress dict with status 'running',
\* percentage 0 and no error; is_running set, _cancel_requested cleared.
tracker_start(total_steps) ==
  [status |-> "running", percentage |-> 0, total_steps |-> total_steps, error |-> "",
   is_running |-> TRUE, _cancel_requested |-> FALSE]

\* ProgressTracker.update: with total_steps > 0 the percentage is
\* min(100, step / total * 100); nothing else that is modelled changes.
tracker_update(tracker, step) ==
  IF tracker.total_steps > 0
  THEN LET pct == (step * 100) \div tracker.total_steps
       IN [tracker EXCEPT !.percentage = IF pct > 100 THEN 100 ELSE pct]
  ELSE tracker

\* ProgressTracker.complete that leaves is_running set.
tracker_complete_still_running(tracker) ==
  [tracker EXCEPT !.status = "completed", !.percentage = 100]

\* ProgressTracker.complete.
tracker_complete(tracker) ==
  [tracker EXCEPT !.status = "completed", !.percentage = 100, !.is_running = FALSE]

\* ProgressTracker.fail.
tracker_fail(tracker, error) ==
  [tracker EXCEPT !.status = "failed", !.error = error, !.is_running = FALSE]

\* LoRATrainer.train up to step 8: the dataset, the tokenizer and the base
\* model are loaded, then progress_tracker.start is called with the number
\* of steps computed from the dataset (0 for a dataset smaller than a batch).
train_started(job, total_steps) ==
  /\ train_calls[job] = "submitted"
  /\ progress_tracker' = tracker_start(total_steps)
  /\ train_calls' = [train_calls EXCEPT ![job] = "training"]
  /\ UNCHANGED <<response, cancelled_jobs>>
  /\ UNCHANGED manager_vars

\* ProgressCallback.on_log inside trainer.train(): progress_tracker.update
\* with the trainer's global step.
train_update(job, step) ==
  /\ train_calls[job] = "training"
  /\ progress_tracker' = tracker_update(progress_tracker, step)
  /\ UNCHANGED <<train_calls, response, cancelled_jobs>>
  /\ UNCHANGED manager_vars

\* LoRATrainer.train returning normally: trainer.train() has ended; with
\* should_cancel set the run is failed as 'Cancelled by user', else the
\* adapter is saved and progress_tracker.complete is called.
train_returns(job) ==
  /\ train_calls[job] = "training"
  /\ IF progress_tracker._cancel_requested
     THEN /\ progress_tracker' = tracker_fail(progress_tracker, "Cancelled by user")
          /\ train_calls' = [train_calls EXCEPT ![job] = "cancelled"]
     ELSE /\ progress_tracker' = tracker_complete(progress_tracker)
          /\ train_calls' = [train_calls EXCEPT ![job] = "completed"]
  /\ UNCHANGED <<response, cancelled_jobs>>
  /\ UNCHANGED manager_vars

\* LoRATrainer.train raising, before or after progress_tracker.start: the
\* except clause calls progress_tracker.fail(str(e)).
train_fails(job) ==
  /\ train_calls[job] \in {"submitted", "training"}
  /\ progress_tracker' = tracker_fail(progress_tracker, "exception")
  /\ train_calls' = [train_calls EXCEPT ![job] = "failed"]
  /\ UNCHANGED <<response, cancelled_jobs>>
  /\ UNCHANGED manager_vars

\* POST /training/cancel: progress_tracker.cancel sets _cancel_requested.
cancel_training ==
  /\ progress_tracker' = [progress_tracker EXCEPT !._cancel_requested = TRUE]
  /\ cancelled_jobs' = cancelled_jobs \cup Unfinished
  /\ response' = 200
  /\ UNCHANGED train_calls
  /\ UNCHANGED manager_vars

\* ------------------------------------------------------------- crashes
\* The in-memory state is gone when the process dies; operations is what the
\* dying operation had logged.
Dead(operations) ==
  /\ alive' = FALSE
  /\ current_model' = None
  /\ known_models' = NoModels
  /\ chunk_registry' = <<>>
  /\ chunk_counter' = 0
  /\ lora_registry' = <<>>
  /\ lora_counter' = 0
  /\ calls' = [t \in Threads |-> IdleCall]
  /\ last' = Logged(Other("crash"), operations)
  /\ operations_jsonl' = Appended(operations_jsonl, last'.logged)
  /\ UNCHANGED training_vars

\* The process dies inside handle_model_switch after register_model has saved
\* the models registry and after the loop has marked, and saved, the first k
\* of the adapters it was going to mark.
handle_model_switch_crash(new_model_path, k) ==
  LET previous_model == current_model
      new_model_hash == identify_model(new_model_path)
      order == SetToSeq(BecameUnusable(previous_model))
      done == {order[i] : i \in 1..k}
  IN
  /\ alive
  /\ model_changed(new_model_path)
  /\ k < Len(order)
  /\ disk_model_registry' =
       ModelFile(Registered(known_models, new_model_path, None), new_model_hash)
  /\ disk_lora_registry' =
       IF k > 0 THEN LoraFile(SetLoraStatus(lora_registry, done, "unusable"), lora_counter)
       ELSE disk_lora_registry
  /\ stale_loras' = Range(order) \ done
  /\ Dead(<<"model_registered">> \o Times(k, "lora_marked_unusable"))
  /\ UNCHANGED <<disk_chunk_registry, documents_json, torn_documents, manifest_json,
                 passed>>

\* The process dies inside register_lora after _save_lora_registry has written
\* the new record and before _save_model_registry: lora_registry.json holds
\* the record, model_registry.json is as it was, no chunk has been marked.
register_lora_crash(chunk_ids) ==
  LET lora_id == lora_counter + 1 IN
  /\ alive
  /\ disk_lora_registry' =
       LoraFile(Put(lora_registry, lora_id, NewLora(chunk_ids)), lora_id)
  /\ Dead(<<>>)
  /\ UNCHANGED <<disk_chunk_registry, disk_model_registry, documents_json,
                 torn_documents, manifest_json, passed, stale_loras>>

\* The process dies inside create_chunk while _save_registry is writing
\* chunk_registry.json: open(path, 'w') has truncated the file and json.dump
\* has written part of it. manifest.json and documents.json are already there.
create_chunk_crash(documents) ==
  LET chunk_id == chunk_counter + 1 IN
  /\ alive
  /\ documents_json' = Put(documents_json, chunk_id, json_dump(documents))
  /\ torn_documents' = torn_documents \ {chunk_id}
  /\ manifest_json' = Put(manifest_json, chunk_id, NewChunk(documents))
  /\ disk_chunk_registry' = CorruptFile
  /\ Dead(<<>>)
  /\ UNCHANGED <<disk_lora_registry, disk_model_registry, passed, stale_loras>>

\* The process dies inside mark_chunk_trained: after the assignment of lora_id
\* and before the save (the file is as it was), or while _save_registry is
\* writing chunk_registry.json (the file is cut short).
mark_chunk_trained_crash(chunk_id, saving) ==
  /\ alive
  /\ chunk_id \in DOMAIN chunk_registry
  /\ disk_chunk_registry' = IF saving THEN CorruptFile ELSE disk_chunk_registry
  /\ Dead(<<>>)
  /\ UNCHANGED <<disk_lora_registry, disk_model_registry, documents_json, torn_documents,
                 manifest_json, passed, stale_loras>>

\* The process dies inside create_chunk while json.dump is writing
\* documents.json (opened with 'w', so already truncated): the file exists and
\* holds incomplete JSON; the registry has not been touched yet.
create_chunk_documents_crash(documents) ==
  LET chunk_id == chunk_counter + 1 IN
  /\ alive
  /\ manifest_json' = Put(manifest_json, chunk_id, NewChunk(documents))
  /\ documents_json' = [c \in DOMAIN documents_json \ {chunk_id} |-> documents_json[c]]
  /\ torn_documents' = torn_documents \cup {chunk_id}
  /\ Dead(<<>>)
  /\ UNCHANGED <<disk_chunk_registry, disk_lora_registry, disk_model_registry, passed,
                 stale_loras>>

\* ------------------------------------------------------------ next state
\* The whole machine: every operation of the manager, and restarts.
Next ==
  \/ \E p \in Paths : UsesLeft(p) /\ register_model(p)
  \/ \E p \in Paths : UsesLeft(p) /\ handle_model_switch(p)
  \/ chunk_counter < MaxChunks /\ \E d \in DocLists : create_chunk(d)
  \/ \E c \in 1..MaxChunks : mark_chunk_training(c)
  \/ \E c \in 1..MaxChunks, l \in 1..MaxLoras : mark_chunk_trained(c, l)
  \/ \E c \in 1..MaxChunks : mark_chunk_failed(c)
  \/ \E c \in 1..MaxChunks : mark_chunk_restored(c)
  \/ lora_counter < MaxLoras /\ \E cs \in ChunkIdLists(MaxChunks) : register_lora(cs)
  \/ \E l \in 1..MaxLoras : mark_lora_unusable(l)
  \/ \E l \in 1..MaxLoras : delete_lora(l)
  \/ \E cs \in ChunkIdLists(MaxChunks) \cup {NullIds} : restore_chunks_to_rag(cs)
  \/ Restart

Spec == Init /\ [][Next]_vars

\* Models and adapters: registration, switches, invalidation and deletion of
\* several adapters, with no chunk created.
NextSwitch ==
  \/ \E p \in Paths : UsesLeft(p) /\ register_model(p)
  \/ \E p \in Paths : UsesLeft(p) /\ handle_model_switch(p)
  \/ lora_counter < MaxSwitchLoras /\ register_lora(<<>>)
  \/ \E l \in 1..MaxSwitchLoras : mark_lora_unusable(l)
  \/ \E l \in 1..MaxSwitchLoras : delete_lora(l)
  \/ \E l \in 1..MaxSwitchLoras : select_lora(l)
  \/ Restart

SpecSwitch == Init /\ [][NextSwitch]_vars

\* The chunk lifecycle: creation with the documents the transport layer lets
\* through, training, restoration, model switches and restarts, with no
\* adapter registered.
NextLifecycle ==
  \/ \E p \in Paths : UsesLeft(p) /\ handle_model_switch(p)
  \/ chunk_counter < MaxLifecycleChunks /\ \E d \in AcceptedDocLists : create_chunk(d)
  \/ \E c \in 1..MaxLifecycleChunks : mark_chunk_trained(c, 1)
  \/ \E cs \in ChunkIdLists(MaxLifecycleChunks) : restore_chunks_to_rag(cs)
  \/ Restart

SpecLifecycle == Init /\ [][NextLifecycle]_vars

\* The status machine of two chunks under model switches: every mark_chunk_*
\* entry point (508-524) on every id, known or not, with batches of one
\* document.
NextStatus ==
  \/ \E p \in Paths : UsesLeft(p) /\ handle_model_switch(p)
  \/ chunk_counter < MaxLifecycleChunks /\ create_chunk(<<Str("x")>>)
  \/ \E c \in 1..MaxLifecycleChunks : mark_chunk_training(c)
  \/ \E c \in 1..MaxLifecycleChunks : mark_chunk_trained(c, 1)
  \/ \E c \in 1..MaxLifecycleChunks : mark_chunk_failed(c)
  \/ \E c \in 1..MaxLifecycleChunks : mark_chunk_restored(c)

SpecStatus == Init /\ [][NextStatus]_vars

\* The machine with operations that raise, and a process that can die, in
\* the middle of an operation.
NextCrash ==
  \/ \E p \in Paths : UsesLeft(p) /\ register_model(p)
  \/ \E p \in Paths : UsesLeft(p) /\ handle_model_switch(p)
  \/ chunk_counter < MaxChunks /\ create_chunk(<<Str("x")>>)
  \/ lora_counter < MaxSwitchLoras /\ \E cs \in ChunkIdLists(MaxChunks) : register_lora(cs)
  \/ \E p \in Paths : identify_model_raises(p)
  \/ lora_counter < MaxSwitchLoras
       /\ \E cs \in ChunkIdLists(MaxChunks) : register_lora_copy_fails(cs)
  \/ \E p \in Paths, k \in 0..(MaxSwitchLoras - 1) :
       UsesLeft(p) /\ handle_model_switch_crash(p, k)
  \/ chunk_counter <= MaxChunks /\ create_chunk_crash(<<Str("x")>>)
  \/ lora_counter < MaxSwitchLoras
       /\ \E cs \in ChunkIdLists(MaxChunks) : register_lora_crash(cs)
  \/ Restart

SpecCrash == Init /\ [][NextCrash]_vars

\* Chunks and their restoration, with a process that can die while it writes
\* a chunk's documents.
NextRestore ==
  \/ chunk_counter < MaxLifecycleChunks /\ \E d \in AcceptedDocLists : create_chunk(d)
  \/ chunk_counter < MaxLifecycleChunks
       /\ \E d \in AcceptedDocLists : create_chunk_documents_crash(d)
  \/ \E c \in 1..MaxLifecycleChunks : mark_chunk_failed(c)
  \/ \E cs \in ChunkIdLists(MaxLifecycleChunks) \cup {NullIds} : restore_chunks_to_rag(cs)
  \/ \E cs \in ChunkIdLists(MaxLifecycleChunks) : restore_chunks_to_rag_raises(cs)
  \/ Restart

SpecRestore == Init /\ [][NextRestore]_vars

\* Training of chunks into adapters, with a mark_chunk_trained that can fail
\* at its save and a process that can die inside it.
NextTrained ==
  \/ \E p \in Paths : UsesLeft(p) /\ register_model(p)
  \/ chunk_counter < MaxLifecycleChunks /\ create_chunk(<<Str("x")>>)
  \/ lora_counter < MaxLoras
       /\ \E cs \in ChunkIdLists(MaxLifecycleChunks) : register_lora(cs)
  \/ \E c \in 1..MaxLifecycleChunks, l \in 1..MaxLoras : mark_chunk_trained(c, l)
  \/ \E c \in 1..MaxLifecycleChunks : mark_chunk_failed(c)
  \/ \E c \in 1..MaxLifecycleChunks, l \in 1..MaxLoras :
       mark_chunk_trained_save_fails(c, l)
  \/ \E c \in 1..MaxLifecycleChunks, saving \in BOOLEAN :
       mark_chunk_trained_crash(c, saving)
  \/ Restart

SpecTrained == Init /\ [][NextTrained]_vars

\* Model registration under either friendly_name, with an adapter, a chunk,
\* switches and restarts around it.
NextModels ==
  \/ \E p \in Paths, n \in Names : UsesLeft(p) /\ register_model_named(p, n)
  \/ \E p \in Paths : UsesLeft(p) /\ handle_model_switch(p)
  \/ \E p \in Paths : detect_model_change(p)
  \/ chunk_counter < MaxChunks /\ \E d \in AcceptedDocLists : create_chunk(d)
  \/ lora_counter < MaxLoras /\ \E cs \in ChunkIdLists(MaxChunks) : register_lora(cs)
  \/ Restart

SpecModels == Init /\ [][NextModels]_vars

\* Two threads calling register_model and handle_model_switch on one manager,
\* between adapter registrations and restarts made while no call is running.
NextConcurrent ==
  \/ \E t \in Threads, p \in Paths : handle_model_switch_begin(t, p)
  \/ \E t \in Threads, p \in Paths : register_model_begin(t, p)
  \/ \E t \in Threads : register_model_read(t)
  \/ \E t \in Threads : UsesLeft(calls[t].path) /\ register_model_store(t)
  \/ \E t \in Threads : handle_model_switch_loop(t)
  \/ calls_return
  \/ AllIdle /\ lora_counter < MaxLoras /\ register_lora(<<>>)
  \/ AllIdle /\ Restart

SpecConcurrent == Init /\ [][NextConcurrent]_vars

\* The operation log followed line by line: a fresh data directory with the
\* file tracked, every logging operation, the history query, restarts and
\* crashes. An operation starts only while the file has fewer than MaxLog
\* lines.
InitLog ==
  /\ alive = TRUE
  /\ current_model = None
  /\ known_models = NoModels
  /\ chunk_registry = <<>>
  /\ chunk_counter = 0
  /\ lora_registry = <<>>
  /\ lora_counter = 0
  /\ disk_chunk_registry = MissingFile
  /\ disk_lora_registry = MissingFile
  /\ disk_model_registry = MissingFile
  /\ documents_json = <<>>
  /\ passed = <<>>
  /\ stale_loras = {}
  /\ torn_documents = {}
  /\ manifest_json = <<>>
  /\ operations_jsonl = EmptyLog
  /\ progress_tracker = IdleTracker
  /\ train_calls = [j \in Jobs |-> "none"]
  /\ response = NoResponse
  /\ cancelled_jobs = {}
  /\ calls = [t \in Threads |-> IdleCall]
  /\ last = NoResult

LogRoom == Len(operations_jsonl.lines) < MaxLog

NextLog ==
  \/ \E p \in Paths : LogRoom /\ UsesLeft(p) /\ register_model(p)
  \/ \E p \in Paths : LogRoom /\ UsesLeft(p) /\ handle_model_switch(p)
  \/ LogRoom /\ chunk_counter < MaxChunks /\ create_chunk(<<Str("x")>>)
  \/ \E c \in 1..MaxChunks : LogRoom /\ mark_chunk_training(c)
  \/ \E c \in 1..MaxChunks : LogRoom /\ mark_chunk_trained(c, 1)
  \/ \E c \in 1..MaxChunks : LogRoom /\ mark_chunk_failed(c)
  \/ \E c \in 1..MaxChunks : LogRoom /\ mark_chunk_restored(c)
  \/ LogRoom /\ lora_counter < MaxLoras
       /\ \E cs \in ChunkIdLists(MaxChunks) : register_lora(cs)
  \/ \E l \in 1..MaxLoras : LogRoom /\ mark_lora_unusable(l)
  \/ \E l \in 1..MaxLoras : LogRoom /\ delete_lora(l)
  \/ \E cs \in ChunkIdLists(MaxChunks) \cup {NullIds} :
       LogRoom /\ restore_chunks_to_rag(cs)
  \/ \E limit \in 0..MaxLimit : get_operation_history(limit)
  \/ \E p \in Paths, k \in 0..(MaxLoras - 1) :
       LogRoom /\ UsesLeft(p) /\ handle_model_switch_crash(p, k)
  \/ LogRoom /\ chunk_counter < MaxChunks /\ create_chunk_crash(<<Str("x")>>)
  \/ Restart

SpecLog == InitLog /\ [][NextLog]_vars

\* The training endpoints of the server and the executor jobs they start.
NextTraining ==
  \/ \E base_model \in BOOLEAN, enough_data \in BOOLEAN : start_training(base_model, enough_data)
  \/ \E j \in Jobs, total_steps \in {0, MaxSteps} : train_started(j, total_steps)
  \/ \E j \in Jobs, step \in 0..MaxSteps : train_update(j, step)
  \/ \E j \in Jobs : train_returns(j)
  \/ \E j \in Jobs : train_fails(j)
  \/ cancel_training

SpecTraining == Init /\ [][NextTraining]_vars

\* The queries among the operations that give them something to read: model
\* switches, one chunk trained or failed, restarts.
NextQueries ==
  \/ \E p \in Paths : UsesLeft(p) /\ handle_model_switch(p)
  \/ chunk_counter < MaxChunks /\ create_chunk(<<Str("x")>>)
  \/ \E c \in 1..MaxChunks : mark_chunk_trained(c, 1)
  \/ \E c \in 1..MaxChunks : mark_chunk_failed(c)
  \/ list_chunks
  \/ list_untrained
  \/ \E h \in Hashes \cup {None} : list_restorable(h)
  \/ \E h \in Hashes \cup {None} : list_compatible_adapters(h)
  \/ \E c \in 1..MaxChunks : get_chunk(c)
  \/ \E c \in 1..MaxChunks : chunk_documents(c)
  \/ get_overview
  \/ Restart

SpecQueries == Init /\ [][NextQueries]_vars

\* ================================================================ claims
IsSwitch(r) == r.op = "handle_model_switch"
IsRestore(r) == r.op = "restore_chunks_to_rag"

LoraStatusUnchanged ==
  /\ DOMAIN lora_registry' = DOMAIN lora_registry
  /\ \A l \in DOMAIN lora_registry : lora_registry'[l].status = lora_registry[l].status

\* C1: in every reachable state every adapter whose status is not 'deleted'
\* is bound to current_model or has status 'unusable'.
C1_AdapterModelCoupling ==
  \A l \in DOMAIN lora_registry :
    lora_registry[l].status # "deleted" =>
      \/ lora_registry[l].model_identity_hash = current_model
      \/ lora_registry[l].status = "unusable"

\* C2: when handle_model_switch reports changed: true, every TRAINED chunk
\* with preserved (here: non-empty) documents that is in the chunk_ids of an
\* adapter listed in unusable_loras is listed in restorable_chunks.
C2_ConsumedChunksRestorable ==
  [][(IsSwitch(last') /\ last'.changed) =>
       LET result == switch_result(last'.path) IN
       \A c \in DOMAIN chunk_registry :
         ( /\ chunk_registry[c].status = TRAINED
           /\ HasDocuments(c)
           /\ get_chunk_documents(c) # <<>>
           /\ \E l \in Range(result.unusable_loras) : c \in Range(lora_registry[l].chunk_ids) )
         => c \in Range(result.restorable_chunks)]_vars

\* The requests the claim names as outside the section 3.3 matrix.
OutsideMatrix(from, to) ==
  \/ from = ARCHIVED /\ to # ARCHIVED
  \/ from = PENDING /\ to \in {TRAINED, RESTORED}
  \/ from = TRAINED /\ to = TRAINING

\* C3: no step changes a chunk's status along a transition outside the
\* lifecycle matrix (out of ARCHIVED, PENDING to TRAINED or RESTORED, TRAINED
\* back to TRAINING): such a request leaves the status unchanged.
C3_TransitionsFollowMatrix ==
  [][\A c \in (DOMAIN chunk_registry) \cap (DOMAIN chunk_registry') :
       ~OutsideMatrix(chunk_registry[c].status, chunk_registry'[c].status)]_vars

\* C4 (as stated): for every chunk, get_chunk_documents returns exactly the
\* list passed to the create_chunk call that created it.
C4_DocumentsExactlyAsPassed ==
  \A c \in DOMAIN chunk_registry :
    HasDocuments(c) /\ get_chunk_documents(c) = passed[c]

\* C4 (amended): for every chunk, get_chunk_documents returns the documents
\* passed to create_chunk in the same number and order, every JSON-native value
\* unchanged and every other value as its str() form; a JSON-native list comes
\* back exactly as passed.
C4_DocumentsPreserved ==
  \A c \in DOMAIN chunk_registry :
    /\ HasDocuments(c)
    /\ Len(get_chunk_documents(c)) = Len(passed[c])
    /\ \A i \in DOMAIN passed[c] :
         /\ get_chunk_documents(c)[i].val = passed[c][i].val
         /\ get_chunk_documents(c)[i].kind = "str"
    /\ IsJsonNative(passed[c]) => get_chunk_documents(c) = passed[c]

\* C4 witness: after a restart, with two chunks created and a model switch
\* done, a restored chunk created with a non-JSON value still has its documents.
C4_Witness ==
  /\ last.op = "restart"
  /\ DOMAIN chunk_registry = {1, 2}
  /\ chunk_registry[1].status = RESTORED
  /\ chunk_registry[1].model_identity_hash # current_model
  /\ passed[1] = <<Obj("t")>>
  /\ passed[2] = <<Str("x")>>
  /\ get_chunk_documents(1) = <<Str("t")>>

\* C5: restore_chunks on a non-empty list S of chunks that list_restorable
\* reports (an empty chunk included) returns the concatenation of their
\* documents in input order, reports none of them failed, and leaves each of
\* them RESTORED.
C5_RestoreDocumentsEquivalence ==
  [][\A S \in ChunkIdLists(MaxChunks) \ {<<>>} :
       ( /\ IsRestore(last')
         /\ restore_chunks_to_rag(S)
         /\ \A c \in Range(S) : c \in Range(get_restorable_chunks(current_model)) )
       =>
       LET result == restore_result(S)
       IN /\ result.documents = Flatten([i \in DOMAIN S |-> get_chunk_documents(S[i])])
          /\ result.failed_chunks = <<>>
          /\ \A c \in Range(S) : chunk_registry'[c].status = RESTORED]_vars

\* C6 (as stated): the first of two consecutive handle_model_switch(p) calls,
\* from any starting state, returns changed: true.
C6_FirstCallReportsChanged ==
  [][(IsSwitch(last') /\ ~last'.second) => last'.changed]_vars

\* C6 (amended): handle_model_switch(p) returns changed: true exactly when a
\* current model exists and differs from p's identity; a call that directly
\* follows a handle_model_switch with the same path returns changed: false and
\* changes no adapter's status.
C6_SwitchIdempotence ==
  [][IsSwitch(last') =>
       /\ last'.changed =
            (current_model # None /\ current_model # identify_model(last'.path))
       /\ last'.second => (~last'.changed /\ LoraStatusUnchanged)]_vars

\* C6 witness: a second consecutive switch to the same path has returned, the
\* first having changed the model and invalidated an adapter.
C6_Witness ==
  /\ IsSwitch(last)
  /\ last.second
  /\ ~last.changed
  /\ \E l \in DOMAIN lora_registry :
       /\ lora_registry[l].status = "unusable"
       /\ lora_registry[l].model_identity_hash \notin {None, current_model}
  /\ \E l \in DOMAIN lora_registry : lora_registry[l].status = "active"

\* C7: a handle_model_switch that changes the current model from P to N
\* leaves every adapter that was active and bound to P unusable, lists exactly
\* those adapters in unusable_loras, and changes no other adapter's status.
C7_SwitchInvalidatesExactly ==
  [][(IsSwitch(last') /\ last'.changed) =>
       LET result == switch_result(last'.path) IN
       /\ DOMAIN lora_registry' = DOMAIN lora_registry
       /\ \A l \in DOMAIN lora_registry :
            IF /\ lora_registry[l].status = "active"
               /\ lora_registry[l].model_identity_hash = current_model
            THEN /\ lora_registry'[l].status = "unusable"
                 /\ l \in Range(result.unusable_loras)
            ELSE /\ lora_registry'[l].status = lora_registry[l].status
                 /\ l \notin Range(result.unusable_loras)]_vars

\* C7 witness: a switch has just changed the model with two adapters
\* registered: one bound to the previous model, now unusable, and a deleted
\* one, still deleted.
C7_Witness ==
  /\ IsSwitch(last)
  /\ last.changed
  /\ {lora_registry[l].status : l \in DOMAIN lora_registry} = {"unusable", "deleted"}
  /\ \A l \in DOMAIN lora_registry : lora_registry[l].model_identity_hash # current_model

\* C8: in every reachable state a TRAINED chunk has a lora_id, the adapter
\* registry holds that adapter, and the adapter's chunk_ids contain the chunk.
C8_TrainedChunkHasAdapter ==
  \A c \in DOMAIN chunk_registry :
    chunk_registry[c].status = TRAINED =>
      /\ chunk_registry[c].lora_id # NoLora
      /\ chunk_registry[c].lora_id \in DOMAIN lora_registry
      /\ c \in Range(lora_registry[chunk_registry[c].lora_id].chunk_ids)

\* C9: after a crash inside handle_model_switch that left adapters of the
\* earlier model active, the next handle_model_switch call leaves none of
\* them active. (An adapter whose model that call makes current again is not
\* held against the claim.)
C9_NextSwitchReconciles ==
  [][IsSwitch(last') =>
       \A l \in stale_loras :
         l \in DOMAIN lora_registry' =>
           \/ lora_registry'[l].status # "active"
           \/ lora_registry'[l].model_identity_hash = current_model']_vars

\* C10: while the process runs on a chunk registry file that did not parse
\* at startup, no operation overwrites that file.
C10_CorruptRegistryNotOverwritten ==
  [][(alive /\ alive' /\ disk_chunk_registry.state = "corrupt")
       => disk_chunk_registry' = disk_chunk_registry]_vars

\* C11: a step in which the process dies while rewriting chunk_registry.json
\* leaves the file holding the last completely written registry, so that the
\* restart loads that registry and not an empty or partial one.
C11_InterruptedWriteKeepsRegistry ==
  [][(alive /\ ~alive' /\ Readable(disk_chunk_registry))
       => disk_chunk_registry' = disk_chunk_registry]_vars

\* C12: every create_chunk call returns an id whose number is greater than
\* the number of every chunk id returned before, restarts included.
C12_ChunkIdsStrictlyIncrease ==
  [][(alive /\ alive' /\ last'.op = "other" /\ chunk_counter' = chunk_counter + 1)
       => \A issued \in DOMAIN passed : issued < chunk_counter']_vars

\* C13: when two concurrent register_model / handle_model_switch calls have
\* both returned, the registries are those of running the two calls one after
\* the other: every model either call registered is in known_models, the
\* current model is one of the two, and model_registry.json holds the registry.
C13_ConcurrentCallsSerialize ==
  (\A t \in Threads : calls[t].pc = "done") =>
    /\ \A t \in Threads : known_models[identify_model(calls[t].path)].known
    /\ \E t \in Threads : current_model = identify_model(calls[t].path)
    /\ disk_model_registry = ModelFile(known_models, current_model)

\* C14: a handle_model_switch that reports changed: true lists in
\* compatible_loras no adapter whose status is 'unusable'; in particular the
\* switch back to the model of an adapter that an earlier switch invalidated
\* lists no adapter.
C14_CompatibleExcludesUnusable ==
  [][(IsSwitch(last') /\ last'.changed) =>
       \A l \in Range(switch_result(last'.path).compatible_loras) :
         lora_registry'[l].status # "unusable"]_vars

\* C15: a register_lora whose artifact copy fails leaves no record for the
\* new id in the adapter registry, in memory or on disk, leaves the models
\* registry (the current model's lora_ids) as it was, and changes no chunk.
C15_CopyFailureWritesNothing ==
  [][last'.op = "register_lora_failed" =>
       /\ lora_registry' = lora_registry
       /\ lora_counter' \notin DOMAIN lora_registry'
       /\ disk_lora_registry' = disk_lora_registry
       /\ Readable(disk_lora_registry') => lora_counter' \notin DOMAIN disk_lora_registry'.entries
       /\ known_models' = known_models
       /\ disk_model_registry' = disk_model_registry
       /\ chunk_registry' = chunk_registry
       /\ disk_chunk_registry' = disk_chunk_registry]_vars

\* C15 witness: the copy has just failed for a second adapter, with a model
\* current, a first adapter registered and saved, and a chunk in the registry.
C15_Witness ==
  /\ last.op = "register_lora_failed"
  /\ current_model # None
  /\ lora_counter = 2
  /\ DOMAIN lora_registry = {1}
  /\ Readable(disk_lora_registry)
  /\ DOMAIN chunk_registry = {1}
  /\ chunk_registry[1].status = PENDING

\* C16: a register_model or handle_model_switch in which identify_model
\* raises changes neither current_model nor any registry, in memory or on
\* disk, and appends nothing to the operation log.
C16_FingerprintFailureWritesNothing ==
  [][last'.op = "identify_failed" =>
       /\ current_model' = current_model
       /\ known_models' = known_models
       /\ lora_registry' = lora_registry
       /\ chunk_registry' = chunk_registry
       /\ disk_model_registry' = disk_model_registry
       /\ disk_lora_registry' = disk_lora_registry
       /\ disk_chunk_registry' = disk_chunk_registry
       /\ last'.logged = <<>>]_vars

\* C16 witness: identification has just failed for a model other than the
\* current one, with an active adapter of the current model and a chunk in
\* the registries.
C16_Witness ==
  /\ last.op = "identify_failed"
  /\ current_model # None
  /\ identify_model(last.path) # current_model
  /\ \E l \in DOMAIN lora_registry :
       /\ lora_registry[l].status = "active"
       /\ lora_registry[l].model_identity_hash = current_model
  /\ DOMAIN chunk_registry = {1}

\* C17: every restore_chunks call, whatever its input list, returns normally,
\* reports each input id in exactly one of restored and failed, and leaves
\* RESTORED every listed chunk whose documents.json is readable, also when
\* another listed chunk's documents.json is missing or unreadable.
C17_RestoreNeverAborts ==
  [][\A S \in ChunkIdLists(MaxLifecycleChunks) :
       (restore_chunks_to_rag(S) \/ restore_chunks_to_rag_raises(S))
       =>
       LET result == restore_result(S)
       IN /\ IsRestore(last')
          /\ \A c \in Range(S) :
               (c \in Range(result.restored_chunks)) # (c \in Range(result.failed_chunks))
          /\ \A c \in Range(S) :
               (c \in DOMAIN chunk_registry /\ HasDocuments(c) /\ ~Raises(c))
                 => chunk_registry'[c].status = RESTORED]_vars

\* C18: get_restorable_chunks(target), target being current_model when the
\* argument is omitted, returns exactly once each chunk that has a
\* documents.json and whose status is FAILED, RESTORED, or TRAINED with a
\* model_identity_hash different from target, and no other chunk.
C18_RestorableExactly ==
  \A model_identity_hash \in Hashes \cup {None} :
    LET target == IF model_identity_hash = None THEN current_model ELSE model_identity_hash
        listed == get_restorable_chunks(model_identity_hash)
    IN /\ Range(listed) =
            {c \in DOMAIN chunk_registry :
               /\ c \in DOMAIN documents_json \cup torn_documents
               /\ \/ chunk_registry[c].status \in {FAILED, RESTORED}
                  \/ /\ chunk_registry[c].status = TRAINED
                     /\ chunk_registry[c].model_identity_hash # target}
       /\ Len(listed) = Cardinality(Range(listed))

\* C18 witness: two trained chunks, one of the current model and one of the
\* other model; the call without argument lists the second only, the call
\* for the other model lists the first only.
C18_Witness ==
  /\ current_model = "Hb"
  /\ DOMAIN chunk_registry = {1, 2}
  /\ chunk_registry[1].status = TRAINED /\ chunk_registry[1].model_identity_hash = "Ha"
  /\ chunk_registry[2].status = TRAINED /\ chunk_registry[2].model_identity_hash = "Hb"
  /\ get_restorable_chunks(None) = <<1>>
  /\ get_restorable_chunks("Ha") = <<2>>

C20_RegisterAdapterPostconditions ==
  [][\A chunk_ids \in ChunkIdLists(MaxChunks) :
       register_lora(chunk_ids) =>
         LET lora_id == lora_counter' IN
         /\ lora_registry'[lora_id].status = "active"
         /\ lora_registry'[lora_id].model_identity_hash = current_model'
         /\ current_model' # None
         /\ lora_id \in Range(known_models'[current_model'].lora_ids)
         /\ \A c \in Range(chunk_ids) :
              /\ c \in DOMAIN chunk_registry'
              /\ chunk_registry'[c].status = TRAINED
              /\ chunk_registry'[c].lora_id = lora_id
         /\ lora_id \in Range(get_compatible_loras(None))']_vars

\* C21: a register_model call that directly follows a register_model call
\* with the same path and friendly_name leaves current_model, the keys of
\* known_models and the identity, friendly_name, first_seen and lora_ids of
\* every known model unchanged, raises times_used of the model by exactly 1,
\* and changes no chunk or adapter record.
C21_RegisterModelIdempotent ==
  [][(last'.op = "register_model" /\ last'.second) =>
       /\ current_model' = current_model
       /\ \A h \in Hashes :
            /\ known_models'[h].known = known_models[h].known
            /\ known_models'[h].identity = known_models[h].identity
            /\ known_models'[h].friendly_name = known_models[h].friendly_name
            /\ known_models'[h].first_seen = known_models[h].first_seen
            /\ known_models'[h].lora_ids = known_models[h].lora_ids
       /\ known_models'[identify_model(last'.path)].times_used =
            known_models[identify_model(last'.path)].times_used + 1
       /\ chunk_registry' = chunk_registry
       /\ lora_registry' = lora_registry]_vars

\* C21 witness: register_model('/m/a', 'alias') has returned for the second
\* time in a row, the other model having an adapter and a chunk trained by it.
C21_Witness ==
  /\ last.op = "register_model" /\ last.second
  /\ last.path = "/m/a" /\ last.name = "alias"
  /\ current_model = "Ha"
  /\ known_models["Ha"].times_used = 2
  /\ known_models["Ha"].friendly_name = "alias"
  /\ known_models["Hb"].lora_ids = <<1>>
  /\ DOMAIN chunk_registry = {1} /\ chunk_registry[1].status = TRAINED

\* C22: detect_model_change(path) leaves current_model and the three
\* registries, in memory and on disk, unchanged, appends nothing to the
\* operation log, and returns changed: true exactly when current_model is set
\* and differs from the identity hash of path.
C22_DetectMutatesNothing ==
  [][last'.op = "detect_model_change" =>
       /\ UNCHANGED <<current_model, known_models, chunk_registry, chunk_counter,
                      lora_registry, lora_counter, disk_chunk_registry,
                      disk_lora_registry, disk_model_registry>>
       /\ last'.logged = <<>>
       /\ detect_result(last'.path).changed <=>
            (current_model # None /\ current_model # identify_model(last'.path))]_vars

\* C22 witness: detect_model_change('/m/b') has returned while '/m/a' is the
\* current model, with an adapter and a chunk in the registries; it reported a
\* change to a model not known yet.
C22_Witness ==
  /\ last.op = "detect_model_change" /\ last.path = "/m/b"
  /\ current_model = "Ha"
  /\ detect_result("/m/b").changed /\ ~detect_result("/m/b").known
  /\ DOMAIN lora_registry = {1} /\ DOMAIN chunk_registry = {1}

\* C23: in every reachable state, the state right after a restart included,
\* current_model is None or a key of known_models.
C23_CurrentModelIsKnown ==
  current_model # None => known_models[current_model].known

\* C23 witness: the manager has just been restarted on a models registry that
\* holds two models, after a switch during which the process died.
C23_Witness ==
  /\ last.op = "restart"
  /\ current_model = "Hb"
  /\ known_models["Ha"].known /\ known_models["Hb"].known
  /\ stale_loras # {}

\* C24: whenever a step writes a non-null lora_id into a chunk record, in
\* memory or in the persisted chunk registry (a value the record did not hold
\* before, in memory or on disk), the record's status in the same place is
\* TRAINED after the step; a chunk is created with a null lora_id. This holds
\* also for steps in which mark_chunk_trained fails or the process dies in it.
C24_LoraIdOnlyWithTrained ==
  [][LET Held(c, l) ==
           \/ c \in DOMAIN chunk_registry /\ chunk_registry[c].lora_id = l
           \/ /\ Readable(disk_chunk_registry)
              /\ c \in DOMAIN disk_chunk_registry.entries
              /\ disk_chunk_registry.entries[c].lora_id = l
     IN /\ \A c \in DOMAIN chunk_registry' :
             (chunk_registry'[c].lora_id # NoLora /\ ~Held(c, chunk_registry'[c].lora_id))
               => chunk_registry'[c].status = TRAINED
        /\ Readable(disk_chunk_registry') =>
             \A c \in DOMAIN disk_chunk_registry'.entries :
               ( /\ disk_chunk_registry'.entries[c].lora_id # NoLora
                 /\ ~Held(c, disk_chunk_registry'.entries[c].lora_id) )
                 => disk_chunk_registry'.entries[c].status = TRAINED]_vars

\* C24 witness: the save inside mark_chunk_trained has just failed; the
\* chunk's lora_id is written and its status is TRAINED in memory, and the
\* registry file holds no record with a lora_id.
C24_Witness ==
  /\ last.op = "mark_chunk_trained_failed"
  /\ DOMAIN chunk_registry = {1}
  /\ chunk_registry[1].lora_id = 1 /\ chunk_registry[1].status = TRAINED
  /\ ~Readable(disk_chunk_registry)

\* C25: register_lora creates the adapter record with model_identity_hash
\* equal to current_model, and no later step (model registration or switch,
\* mark_lora_unusable, delete_lora, restore, restart) changes the
\* model_identity_hash of an existing adapter record, in memory or on disk.
C25_AdapterBindingImmutable ==
  [][/\ lora_counter' = lora_counter + 1 =>
          lora_registry'[lora_counter'].model_identity_hash = current_model
     /\ \A l \in DOMAIN lora_registry \cap DOMAIN lora_registry' :
          l # lora_counter + 1 =>
            lora_registry'[l].model_identity_hash = lora_registry[l].model_identity_hash
     /\ (Readable(disk_lora_registry) /\ Readable(disk_lora_registry')) =>
          \A l \in DOMAIN disk_lora_registry.entries :
            /\ l \in DOMAIN disk_lora_registry'.entries
            /\ disk_lora_registry'.entries[l].model_identity_hash =
                 disk_lora_registry.entries[l].model_identity_hash]_vars

\* C25 witness: an adapter created under '/m/a' has gone through a switch to
\* '/m/b' that made it unusable, a deletion and a restore call, and is still
\* bound to the hash of '/m/a'.
C25_Witness ==
  /\ IsRestore(last)
  /\ current_model = "Hb"
  /\ DOMAIN lora_registry = {1}
  /\ lora_registry[1].status = "deleted"
  /\ lora_registry[1].model_identity_hash = "Ha"
  /\ DOMAIN chunk_registry = {1} /\ chunk_registry[1].status = RESTORED

\* C26: a mark_chunk_training, mark_chunk_trained, mark_chunk_failed or
\* mark_chunk_restored call for an id that is not in the chunk registry
\* returns normally and creates or modifies no registry entry (in memory or
\* on disk), writes no manifest and appends nothing to the operation log.
C26_UnknownChunkIgnored ==
  [][\A c \in 1..MaxLifecycleChunks :
       ( /\ c \notin DOMAIN chunk_registry
         /\ \/ mark_chunk_training(c)
            \/ mark_chunk_trained(c, 1)
            \/ mark_chunk_failed(c)
            \/ mark_chunk_restored(c) )
       =>
       /\ alive'
       /\ chunk_registry' = chunk_registry
       /\ disk_chunk_registry' = disk_chunk_registry
       /\ manifest_json' = manifest_json
       /\ last'.logged = <<>>]_vars

\* C26 witness: a transition was requested for chunk 2, which does not exist,
\* while chunk 1 is in training; the call has returned.
C26_Witness ==
  /\ last.op = "unknown_chunk"
  /\ DOMAIN chunk_registry = {1}
  /\ chunk_registry[1].status = TRAINING
  /\ DOMAIN manifest_json = {1}

\* C27: after every completed operation, for every chunk in the registry the
\* record in its manifest.json equals the chunk's registry entry.
C27_ManifestInSync ==
  alive =>
    \A c \in DOMAIN chunk_registry :
      c \in DOMAIN manifest_json /\ manifest_json[c] = chunk_registry[c]

\* C28: the operation log is append-only and records every significant
\* mutation. No step removes or rewrites a line already in operations.jsonl;
\* a model registration appends exactly one model_registered entry, a changed
\* switch exactly one model_switch entry (an unchanged one none), a chunk
\* creation one chunk_created, a status change of a known chunk one
\* chunk_status_changed, an adapter registration one lora_registered (and one
\* chunk_status_changed per known chunk it marks), an invalidation or
\* deletion of a known adapter one lora_marked_unusable or lora_deleted, a
\* restore call one chunks_restored; and whenever an entry has been appended,
\* also by an operation that died afterwards, the registry file it speaks of
\* is complete on disk and holds the change.
C28_LogAppendOnly ==
  [][LET old == operations_jsonl.lines
         new == operations_jsonl'.lines
         added == SubSeq(new, Len(old) + 1, Len(new))
         n(operation) == Len(SelectSeq(added, LAMBDA e : e = operation))
     IN
     /\ Len(new) >= Len(old)
     /\ SubSeq(new, 1, Len(old)) = old
     /\ \A p \in Paths : register_model(p) => added = <<"model_registered">>
     /\ \A p \in Paths :
          handle_model_switch(p) =>
            /\ n("model_registered") = 1
            /\ n("model_switch") = IF switch_result(p).changed THEN 1 ELSE 0
            /\ n("lora_marked_unusable") = Len(switch_result(p).unusable_loras)
            /\ switch_result(p).changed => added[Len(added)] = "model_switch"
     /\ create_chunk(<<Str("x")>>) => added = <<"chunk_created">>
     /\ \A c \in DOMAIN chunk_registry :
          mark_chunk_failed(c) => added = <<"chunk_status_changed">>
     /\ \A cs \in ChunkIdLists(MaxChunks) :
          register_lora(cs) =>
            /\ n("lora_registered") = 1
            /\ n("chunk_status_changed") = Cardinality(Range(cs) \cap DOMAIN chunk_registry)
            /\ Len(added) = 1 + n("chunk_status_changed")
     /\ \A l \in DOMAIN lora_registry :
          /\ mark_lora_unusable(l) => added = <<"lora_marked_unusable">>
          /\ delete_lora(l) => added = <<"lora_deleted">>
     /\ \A cs \in ChunkIdLists(MaxChunks) \cup {NullIds} :
          restore_chunks_to_rag(cs) =>
            /\ n("chunks_restored") = 1
            /\ added[Len(added)] = "chunks_restored"
     /\ "model_registered" \in Range(added) =>
          /\ Readable(disk_model_registry')
          /\ disk_model_registry'.current_model # None
          /\ disk_model_registry'.known_models[disk_model_registry'.current_model].known
     /\ "chunk_created" \in Range(added) =>
          /\ Readable(disk_chunk_registry')
          /\ chunk_counter' \in DOMAIN disk_chunk_registry'.entries
     /\ "chunk_status_changed" \in Range(added) =>
          /\ Readable(disk_chunk_registry')
          /\ disk_chunk_registry'.entries = chunk_registry'
     /\ (\E e \in Range(added) : e \in {"lora_registered", "lora_marked_unusable", "lora_deleted"}) =>
          /\ Readable(disk_lora_registry')
          /\ alive' => disk_lora_registry'.entries = lora_registry'
    ]_vars

\* A run in which an adapter was registered for a chunk after a model and the
\* chunk: four lines in the file, in the order written.
C28_Witness ==
  /\ operations_jsonl.lines =
       <<"model_registered", "chunk_created", "chunk_status_changed", "lora_registered">>
  /\ last.logged = <<"chunk_status_changed", "lora_registered">>
  /\ Readable(disk_lora_registry)
  /\ disk_chunk_registry.entries[1].status = TRAINED

\* C29: get_operation_history(limit) returns the last N log lines. For every
\* limit >= 0 and a log of n entries the result is exactly the last
\* min(limit, n) entries in log order, none when limit is 0.
C29_LastLimitEntries ==
  \A limit \in 0..MaxLimit :
    LET entries == operations_jsonl.lines
        n == Len(entries)
        k == IF limit < n THEN limit ELSE n
    IN history_result(limit) = SubSeq(entries, n - k + 1, n)

\* C29, for the limits of 1 and more: the result is the last min(limit, n)
\* entries in log order.
C29_LastEntriesPositiveLimit ==
  \A limit \in 1..MaxLimit :
    LET entries == operations_jsonl.lines
        n == Len(entries)
        k == IF limit < n THEN limit ELSE n
    IN history_result(limit) = SubSeq(entries, n - k + 1, n)

\* C29: the query changes no state: neither the registries, the files nor
\* the log.
C29_HistoryReadOnly ==
  [][(\E limit \in 0..MaxLimit : get_operation_history(limit)) =>
       UNCHANGED <<alive, current_model, known_models, chunk_registry, chunk_counter,
                   lora_registry, lora_counter, disk_chunk_registry, disk_lora_registry,
                   disk_model_registry, documents_json, torn_documents, manifest_json,
                   operations_jsonl>>]_vars

\* C30: at most one training run is in progress at a time: no state has two
\* train calls that were started and have not completed, failed or been
\* cancelled.
C30_AtMostOneTrainingRun == Cardinality(Unfinished) <= 1

\* C30: a start request that arrives after another was accepted and before
\* that run has ended gets 409 and starts no second run.
C30_SecondStartRejected ==
  [][(Unfinished # {} /\ start_training(TRUE, TRUE))
       => response' = 409 /\ train_calls' = train_calls]_vars

\* C31: every chunk-route response is one of 200 / 400 / 409 / 500, and a
\* request that names an unknown chunk id or an unknown adapter id where one
\* is required (get_chunk, get_chunk_documents, select_adapter,
\* delete_adapter, mark_adapter_unusable) is answered with 400.
C31_UnknownIdIsClientError ==
  /\ \A l \in 1..MaxSwitchLoras :
       /\ select_lora_status(l) \in {200, 400, 409, 500}
       /\ delete_lora_status(l) \in {200, 400, 409, 500}
       /\ mark_unusable_status(l) \in {200, 400, 409, 500}
       /\ l \notin DOMAIN lora_registry =>
            /\ select_lora_status(l) = 400
            /\ delete_lora_status(l) = 400
            /\ mark_unusable_status(l) = 400
  /\ \A c \in 1..MaxChunks :
       /\ get_chunk_status(c) \in {200, 400, 409, 500}
       /\ get_chunk_documents_status(c) \in {200, 400, 409, 500}
       /\ c \notin DOMAIN chunk_registry => get_chunk_status(c) = 400
       /\ ~HasDocuments(c) => get_chunk_documents_status(c) = 400

\* C31: a request with an unknown adapter id mutates no registry.
C31_UnknownIdMutatesNothing ==
  [][\A l \in 1..MaxSwitchLoras :
       (l \notin DOMAIN lora_registry
          /\ (select_lora(l) \/ delete_lora(l) \/ mark_lora_unusable(l)))
       => /\ lora_registry' = lora_registry /\ disk_lora_registry' = disk_lora_registry
          /\ chunk_registry' = chunk_registry /\ known_models' = known_models
          /\ last'.logged = <<>>]_vars

\* C32: the ProgressTracker lifecycle. Before and after every step, the
\* first one included, is_running holds exactly when the status is 'running'
\* (so it is false initially); it is true after start() and false after
\* complete() or fail(); after complete() the status is 'completed' and the
\* percentage is 100.
C32_TrackerLifecycle ==
  [][
         /\ progress_tracker.is_running <=> progress_tracker.status = "running"
         /\ progress_tracker'.is_running <=> progress_tracker'.status = "running"
         /\ \A j \in Jobs, total_steps \in {0, MaxSteps} :
            train_started(j, total_steps) =>
              progress_tracker'.is_running /\ progress_tracker'.percentage = 0
         /\ \A j \in Jobs :
            train_returns(j) =>
              /\ ~progress_tracker'.is_running
              /\ ~progress_tracker._cancel_requested =>
                   /\ progress_tracker'.status = "completed"
                   /\ progress_tracker'.percentage = 100
         /\ \A j \in Jobs :
            train_fails(j) =>
              ~progress_tracker'.is_running /\ progress_tracker'.status = "failed"]_vars

\* A run over a dataset smaller than one batch has completed: no update ever
\* moved the percentage, and complete() left it at 100.
C32_Witness ==
  /\ train_calls[1] = "completed"
  /\ progress_tracker.status = "completed"
  /\ progress_tracker.total_steps = 0
  /\ progress_tracker.percentage = 100
  /\ ~progress_tracker.is_running

\* C37: a cancel request made while a training run is in progress, at any
\* time after its start request was accepted and before it finishes, is
\* honoured: that run never ends as completed.
C37_CancelIsHonoured ==
  \A j \in cancelled_jobs : train_calls[j] # "completed"

\* C37, for the requests that arrive after progress_tracker.start and before
\* trainer.train() has returned: the run ends as failed with the error
\* 'Cancelled by user' when it returns normally.
C37_CancelDuringTrainerHonoured ==
  [][\A j \in Jobs :
       (progress_tracker._cancel_requested /\ train_returns(j))
       => /\ train_calls'[j] = "cancelled"
          /\ progress_tracker'.status = "failed"
          /\ progress_tracker'.error = "Cancelled by user"]_vars

\* C33: select_adapter never reports compatible: true for an adapter whose
\* status is 'unusable', in any state after the invalidation, also after a
\* switch back to the adapter's own model.
C33_UnusableNeverCompatible ==
  \A l \in DOMAIN lora_registry :
    lora_registry[l].status = "unusable" => ~select_result(l).compatible

\* C34: restore_chunks changes the status only of chunks that are restorable
\* when it is called. With chunk_ids null the chunks it transitions are
\* exactly those list_restorable() returns for the current model; with
\* explicit ids it transitions no chunk that is not restorable (PENDING,
\* TRAINING, or TRAINED for the current model); every chunk it does not
\* transition keeps its record.
C34_RestoreOnlyRestorable ==
  [][\A cs \in ChunkIdLists(MaxLifecycleChunks) \cup {NullIds} :
       restore_chunks_to_rag(cs) =>
         \A c \in DOMAIN chunk_registry :
           LET restorable == c \in Range(get_restorable_chunks(current_model))
               transitioned == c \in Range(restore_result(cs).restored_chunks)
           IN /\ cs = NullIds => (transitioned <=> restorable)
              /\ transitioned => restorable
              /\ ~transitioned => chunk_registry'[c] = chunk_registry[c]]_vars

\* C35: the query operations are read-only: each of them leaves every chunk
\* record and every adapter record of the in-memory registries as it was.
C35_QueriesReadOnly ==
  [][last'.op \in Queries =>
       chunk_registry' = chunk_registry /\ lora_registry' = lora_registry]_vars

\* C35, for the queries other than list_restorable and overview.
C35_OtherQueriesReadOnly ==
  [][last'.op \in Queries \ {"list_restorable", "overview"} =>
       chunk_registry' = chunk_registry /\ lora_registry' = lora_registry]_vars

\* C36: 'deleted' is a terminal adapter status: no operation changes the
\* status of an adapter that delete_adapter has set to 'deleted'.
C36_DeletedIsTerminal ==
  [][\A l \in DOMAIN lora_registry \cap DOMAIN lora_registry' :
       lora_registry[l].status = "deleted" => lora_registry'[l].status = "deleted"]_vars

\* C36: an adapter whose status is 'deleted' is returned neither by
\* select_adapter nor by list_compatible_adapters.
C36_DeletedNotReturned ==
  \A l \in DOMAIN lora_registry :
    lora_registry[l].status = "deleted" =>
      /\ select_result(l).null
      /\ \A h \in Hashes \cup {None} : l \notin Range(get_compatible_loras(h))

\* C36, for the operations other than mark_adapter_unusable: a deleted
\* adapter stays deleted.
C36_DeletedKeptByOthers ==
  [][(\A l \in 1..MaxSwitchLoras : ~mark_lora_unusable(l)) =>
       \A l \in DOMAIN lora_registry \cap DOMAIN lora_registry' :
         lora_registry[l].status = "deleted" => lora_registry'[l].status = "deleted"]_vars

\* C38: each chunk's history is append-only and tracks its status. After
\* every step a chunk's history is not empty and its last action is
\* 'created' when the chunk is PENDING and the chunk's status otherwise;
\* every step leaves the earlier entries as a prefix; and every status
\* change of a known chunk (the four marks, an adapter registration, a
\* restore) appends exactly one entry, whose action is the new status.
C38_HistoryTracksStatus ==
  [][
    /\ \A c \in DOMAIN chunk_registry' :
         LET history == chunk_registry'[c].history IN
         /\ history # <<>>
         /\ history[Len(history)] =
              IF chunk_registry'[c].status = PENDING THEN "created"
              ELSE chunk_registry'[c].status
    /\ \A c \in DOMAIN chunk_registry \cap DOMAIN chunk_registry' :
         LET old == chunk_registry[c].history
             new == chunk_registry'[c].history
         IN
         /\ Len(new) >= Len(old)
         /\ SubSeq(new, 1, Len(old)) = old
         /\ mark_chunk_training(c) => new = Append(old, TRAINING)
         /\ mark_chunk_trained(c, 1) => new = Append(old, TRAINED)
         /\ mark_chunk_failed(c) => new = Append(old, FAILED)
         /\ mark_chunk_restored(c) => new = Append(old, RESTORED)
         /\ \A cs \in ChunkIdLists(MaxChunks) :
              register_lora(cs) =>
                new = IF c \in Range(cs) THEN Append(old, TRAINED) ELSE old
         /\ \A cs \in ChunkIdLists(MaxChunks) \cup {NullIds} :
              restore_chunks_to_rag(cs) =>
                new = IF c \in Range(restore_result(cs).restored_chunks)
                      THEN Append(old, RESTORED) ELSE old
  ]_vars

\* A chunk that was created, trained by an adapter registration, marked
\* failed and restored, and then reloaded by a restart.
C38_Witness ==
  /\ last.op = "restart"
  /\ 1 \in DOMAIN chunk_registry
  /\ chunk_registry[1].history = <<"created", TRAINED, FAILED, RESTORED>>
  /\ chunk_registry[1].status = RESTORED
  /\ chunk_registry[1].lora_id = 1

\* C39: models and adapters reference each other consistently. After every
\* completed operation, an adapter id is in the lora_ids of a known model M
\* exactly when an adapter record with that id exists and its
\* model_identity_hash is M, and no adapter id is in the lora_ids of two
\* models.
C39_ModelsAndAdaptersConsistent ==
  (alive /\ last.op \notin {"restart", "crash"}) =>
    /\ \A M \in Hashes : known_models[M].known =>
         \A l \in 1..MaxSwitchLoras :
           l \in Range(known_models[M].lora_ids) <=>
             (l \in DOMAIN lora_registry /\ lora_registry[l].model_identity_hash = M)
    /\ \A M \in Hashes, N \in Hashes :
         (M # N /\ known_models[M].known /\ known_models[N].known) =>
           Range(known_models[M].lora_ids) \cap Range(known_models[N].lora_ids) = {}

====
